---- MODULE Spec2Model ----
(***************************************************************************)
(* Model of the Positive type of src/src/positive.rs: a wrapper around a   *)
(* signed fixed-point Decimal whose API is meant to keep the value >= 0.   *)
(*                                                                         *)
(* The backing Decimal (rust_decimal: 96-bit mantissa, scale 0..28, sign)  *)
(* is modelled with the same shape and scaled-down limits: a signed        *)
(* mantissa m with |m| <= MaxMantissa and a scale e in 0..MaxScale, the    *)
(* number being m / 10^e.  Its operators panic on overflow and on a zero   *)
(* divisor, exactly as the operators the source calls do.                  *)
(***************************************************************************)
EXTENDS Integers, Sequences, FiniteSets, TLC

\* Largest mantissa of the backing Decimal (stands for 2^96 - 1).
MaxMantissa == 15
\* Largest scale of the backing Decimal (stands for 28).
MaxScale == 1
\* Largest exponent magnitude tried with powi / powu.
MaxExp == 2
F64ExactInt == 5
I64Max == 8
U64Max == 11
EpsilonFactor == 2
EpsilonUnits == 2
MaxSumLen == 3
MaxPrecision == 2

Abs(x) == IF x < 0 THEN -x ELSE x

RECURSIVE Pow10(_)
Pow10(n) == IF n <= 0 THEN 1 ELSE 10 * Pow10(n - 1)

----------------------------------------------------------------------------
(* The backing Decimal.                                                    *)

Dec(m, e) == [m |-> m, e |-> e]

Decimals == [m : (-MaxMantissa)..MaxMantissa, e : 0..MaxScale]

DecZERO == Dec(0, 0)
DecONE == Dec(1, 0)
DecTWO == Dec(2, 0)
DecMAX == Dec(MaxMantissa, 0)

\* The number a Decimal denotes, in units of 10^-MaxScale: Decimal's
\* comparisons are by numeric value, whatever the scale (1.0 == 1).
Num(d) == d.m * Pow10(MaxScale - d.e)

DecEq(a, b) == Num(a) = Num(b)
DecLt(a, b) == Num(a) < Num(b)
DecLe(a, b) == Num(a) <= Num(b)
DecGt(a, b) == Num(a) > Num(b)
DecGe(a, b) == Num(a) >= Num(b)
DecIsZero(d) == d.m = 0

\* One digit of scale dropped, rounding the magnitude half to even.
RoundDiv10(m) ==
    LET a == Abs(m)
        q == a \div 10
        r == a % 10
        up == IF r > 5 \/ (r = 5 /\ q % 2 = 1) THEN q + 1 ELSE q
    IN  IF m < 0 THEN -up ELSE up

\* Result of a Decimal calculation: a value, or the reason it panics.
CalcOk(d) == [st |-> "Ok", d |-> d]
CalcOverflow == [st |-> "Overflow", d |-> DecZERO]
CalcDivByZero == [st |-> "DivByZero", d |-> DecZERO]

\* An exact result m / 10^e brought into the representable range: scale is
\* given up (with rounding) while the mantissa or the scale is too large; a
\* mantissa still too large at scale 0 is an overflow.
RECURSIVE Fit(_, _)
Fit(m, e) ==
    IF e > MaxScale \/ (Abs(m) > MaxMantissa /\ e > 0)
    THEN Fit(RoundDiv10(m), e - 1)
    ELSE IF Abs(m) > MaxMantissa THEN CalcOverflow ELSE CalcOk(Dec(m, e))

Max2(x, y) == IF x > y THEN x ELSE y

DecAdd(a, b) ==
    LET s == Max2(a.e, b.e)
    IN  Fit(a.m * Pow10(s - a.e) + b.m * Pow10(s - b.e), s)

DecNeg(a) == Dec(-a.m, a.e)

DecSub(a, b) == DecAdd(a, DecNeg(b))

DecMul(a, b) == Fit(a.m * b.m, a.e + b.e)

\* Quotient rounded (half to even, on the magnitude) to an integer.
RoundQuot(n, d) ==
    LET an == Abs(n)
        ad == Abs(d)
        q == an \div ad
        r == an % ad
        up == IF 2 * r > ad \/ (2 * r = ad /\ q % 2 = 1) THEN q + 1 ELSE q
    IN  IF (n < 0) # (d < 0) THEN -up ELSE up

\* a / b: the smallest scale at which the quotient is exact, otherwise the
\* largest scale at which the rounded quotient fits.
RECURSIVE DivAt(_, _, _)
DivAt(n, d, s) ==
    LET q == RoundQuot(n * Pow10(s), d)
    IN  IF Abs(q) <= MaxMantissa THEN CalcOk(Dec(q, s))
        ELSE IF s = 0 THEN CalcOverflow
        ELSE DivAt(n, d, s - 1)

DecDiv(a, b) ==
    IF b.m = 0 THEN CalcDivByZero
    ELSE LET n == a.m * Pow10(b.e)
             d == b.m * Pow10(a.e)
             lo == Max2(0, a.e - b.e)
             exact == {s \in lo..MaxScale :
                         /\ (Abs(n) * Pow10(s)) % Abs(d) = 0
                         /\ (Abs(n) * Pow10(s)) \div Abs(d) <= MaxMantissa}
         IN  IF exact # {}
             THEN LET s == CHOOSE x \in exact : \A y \in exact : x <= y
                  IN  CalcOk(Dec(RoundQuot(n * Pow10(s), d), s))
             ELSE DivAt(n, d, MaxScale)

\* self^n by repeated checked multiplication.
RECURSIVE DecPowu(_, _)
DecPowu(a, n) ==
    IF n = 0 THEN CalcOk(DecONE)
    ELSE IF n = 1 THEN CalcOk(a)
    ELSE LET r == DecPowu(a, n - 1)
         IN  IF r.st # "Ok" THEN CalcOverflow
             ELSE LET p == DecMul(r.d, a)
                  IN  IF p.st # "Ok" THEN CalcOverflow ELSE p

\* A negative exponent is 1 / self^|n|; every failure is reported as an
\* overflow of the power.
DecPowi(a, n) ==
    IF n >= 0 THEN DecPowu(a, n)
    ELSE LET r == DecPowu(a, -n)
         IN  IF r.st # "Ok" THEN CalcOverflow
             ELSE LET q == DecDiv(DecONE, r.d)
                  IN  IF q.st # "Ok" THEN CalcOverflow ELSE q

----------------------------------------------------------------------------
(* 64-bit floats: NaN, the two infinities, and finite values m / 10^e.     *)
(* A float keeps fewer significant digits than a Decimal (its significand  *)
(* is at most F64ExactInt, times a power of two), may carry one more       *)
(* fractional digit than a Decimal keeps, and may exceed Decimal::MAX.     *)

F64NaN == [cls |-> "nan", m |-> 0, e |-> 0]
F64Inf == [cls |-> "inf", m |-> 0, e |-> 0]
F64NegInf == [cls |-> "ninf", m |-> 0, e |-> 0]
F64Fin(m, e) == [cls |-> "fin", m |-> m, e |-> e]

\* Half of n, rounded half to even on the magnitude.
RoundHalf(n) ==
    LET q == Abs(n) \div 2
        up == IF Abs(n) % 2 = 1 /\ q % 2 = 1 THEN q + 1 ELSE q
    IN  IF n < 0 THEN -up ELSE up

\* The nearest value a float holds: a significand of at most F64ExactInt
\* times a power of two.
RECURSIVE F64Round(_)
F64Round(n) == IF Abs(n) <= F64ExactInt THEN n ELSE 2 * F64Round(RoundHalf(n))

F64Mk(m, e) == F64Fin(F64Round(m), e)

F64s ==
    {F64NaN, F64Inf, F64NegInf} \cup
    {F64Fin(m, e) : m \in {n \in (-(2 * MaxMantissa))..(2 * MaxMantissa) :
                               F64Round(n) = n},
                    e \in 0..(MaxScale + 1)}

\* Decimal::from_f64: None for NaN, the infinities and magnitudes beyond
\* Decimal::MAX; otherwise the value rounded to what a Decimal can hold.
CalcNone == [st |-> "None", d |-> DecZERO]

from_f64(v) ==
    IF v.cls # "fin" THEN CalcNone
    ELSE LET r == Fit(v.m, v.e)
         IN  IF r.st = "Ok" THEN r ELSE CalcNone

\* IEEE arithmetic of a finite left operand with any right operand.
F64Add(a, b) ==
    IF b.cls # "fin" THEN b
    ELSE LET s == Max2(a.e, b.e)
         IN  F64Mk(a.m * Pow10(s - a.e) + b.m * Pow10(s - b.e), s)

F64Neg(b) ==
    CASE b.cls = "inf" -> F64NegInf
      [] b.cls = "ninf" -> F64Inf
      [] b.cls = "nan" -> F64NaN
      [] OTHER -> F64Fin(-b.m, b.e)

F64Sub(a, b) == F64Add(a, F64Neg(b))

F64Mul(a, b) ==
    CASE b.cls = "nan" -> F64NaN
      [] b.cls \in {"inf", "ninf"} ->
            IF a.m = 0 THEN F64NaN
            ELSE IF (a.m < 0) = (b.cls = "ninf") THEN F64Inf ELSE F64NegInf
      [] OTHER -> F64Mk(a.m * b.m, a.e + b.e)

F64Div(a, b) ==
    CASE b.cls = "nan" -> F64NaN
      [] b.cls \in {"inf", "ninf"} -> F64Fin(0, 0)
      [] b.m = 0 ->
            IF a.m = 0 THEN F64NaN ELSE IF a.m > 0 THEN F64Inf ELSE F64NegInf
      [] OTHER ->
            LET s == MaxScale + 1
            IN  F64Mk(RoundQuot(a.m * Pow10(b.e + s), b.m * Pow10(a.e)), s)

----------------------------------------------------------------------------
(* What a call gives back: a Positive (plain or inside Ok / Some), an      *)
(* error kind, None, or a panic that aborts the process.                   *)

Ok(v) == [kind |-> "Ok", val |-> v, err |-> "-"]
Some(v) == [kind |-> "Some", val |-> v, err |-> "-"]
None == [kind |-> "None", val |-> DecZERO, err |-> "-"]
Err(e) == [kind |-> "Err", val |-> DecZERO, err |-> e]
Panic(msg) == [kind |-> "Abort", val |-> DecZERO, err |-> msg]

\* Positive(<decimal expression>): the tuple constructor wraps whatever the
\* expression yields, without a check; the expression itself may panic.
Wrap(r) == IF r.st = "Ok" THEN Ok(r.d) ELSE Panic(r.st)

\* Result::expect and Result::ok.
expect(r, msg) == IF r.kind = "Ok" THEN r ELSE Panic(msg)
ok(r) == IF r.kind = "Ok" THEN Some(r.val) ELSE None

\* A returned number that is not a Positive (a float or an integer), plain
\* or inside Some.
Val(x) == [kind |-> "Val", val |-> x, err |-> "-"]
SomeVal(x) == [kind |-> "SomeVal", val |-> x, err |-> "-"]

\* Option::expect and Option::unwrap_or on such a number.
expect_some(o, msg) == IF o.kind = "SomeVal" THEN Val(o.val) ELSE Panic(msg)
unwrap_or(o, dflt) == IF o.kind = "SomeVal" THEN Val(o.val) ELSE Val(dflt)

----------------------------------------------------------------------------
(* Constructors.                                                           *)

\* Variant of new that also rejects zero (`>` for `>=`).
new_rejecting_zero(value) ==
    LET dec == from_f64(value)
    IN  IF dec.st = "Ok" /\ DecGt(dec.d, DecZERO) THEN Ok(dec.d)
        ELSE IF dec.st = "Ok" THEN Err("OutOfBounds")
        ELSE Err("ConversionError")

new(value) ==
    LET dec == from_f64(value)
    IN  IF dec.st = "Ok" /\ DecGe(dec.d, DecZERO) THEN Ok(dec.d)
        ELSE IF dec.st = "Ok" THEN Err("OutOfBounds")
        ELSE Err("ConversionError")

\* Variant of new_decimal that also rejects zero (`>` for `>=`).
new_decimal_rejecting_zero(value) ==
    IF DecGt(value, DecZERO) THEN Ok(value) ELSE Err("OutOfBounds")

new_decimal(value) ==
    IF DecGe(value, DecZERO) THEN Ok(value) ELSE Err("OutOfBounds")

pos_macro(val) == new(val)
pos_or_panic(val) == expect(new(val), "Failed to create Positive value")
spos(val) == ok(new(val))

ZERO == DecZERO
ONE == DecONE
TWO == DecTWO
INFINITY == DecMAX

\* Positive(<decimal expression>) re-validated by new_decimal(..).expect(..).
Checked(r, msg) ==
    IF r.st = "Ok" THEN expect(new_decimal(r.d), msg) ELSE Panic(r.st)

----------------------------------------------------------------------------
(* Methods of Positive.                                                    *)

powi(self, n) == Wrap(DecPowi(self, n))
powu(self, n) == Wrap(DecPowu(self, n))

sub_or_zero(self, other) ==
    IF DecGt(self, other) THEN Wrap(DecSub(self, other)) ELSE Ok(DecZERO)

\* Variant of sub_or_none that switches where sub_or_zero does (`>` for `>=`).
sub_or_none_strict(self, other) ==
    IF DecGt(self, other)
    THEN LET r == DecSub(self, other)
         IN  IF r.st = "Ok" THEN Some(r.d) ELSE Panic(r.st)
    ELSE None

sub_or_none(self, other) ==
    IF DecGe(self, other)
    THEN LET r == DecSub(self, other)
         IN  IF r.st = "Ok" THEN Some(r.d) ELSE Panic(r.st)
    ELSE None

checked_sub(self, rhs) ==
    LET r == DecSub(self, rhs)
    IN  IF r.st = "Ok" THEN new_decimal(r.d) ELSE Panic(r.st)

saturating_sub(self, rhs) ==
    IF DecGt(self, rhs) THEN Wrap(DecSub(self, rhs)) ELSE Ok(ZERO)

checked_div(self, rhs) ==
    IF DecIsZero(rhs) THEN Err("ArithmeticError")
    ELSE Wrap(DecDiv(self, rhs))

----------------------------------------------------------------------------
(* Operators between two Positive values.                                  *)

add(self, other) == Wrap(DecAdd(self, other))

\* Variant of sub that also panics on a zero result (`<=` for `<`).
sub_panicking_on_zero(self, rhs) ==
    LET result == DecSub(self, rhs)
    IN  IF result.st # "Ok" THEN Panic(result.st)
        ELSE IF DecLe(result.d, DecZERO)
             THEN Panic("Resulting value must be positive")
             ELSE Ok(result.d)

sub(self, rhs) ==
    LET result == DecSub(self, rhs)
    IN  IF result.st # "Ok" THEN Panic(result.st)
        ELSE IF DecLt(result.d, DecZERO)
             THEN Panic("Resulting value must be positive")
             ELSE Ok(result.d)

div(self, other) == Wrap(DecDiv(self, other))

\* Variant of mul that reports an overflow as an error value.
mul_reporting_overflow(self, other) ==
    LET r == DecMul(self, other)
    IN  IF r.st = "Ok" THEN Ok(r.d) ELSE Err("ArithmeticError")

mul(self, other) == Wrap(DecMul(self, other))

\* Variant of neg that lets ZERO through (-0 = 0).
neg_allowing_zero(self) ==
    IF DecIsZero(self) THEN Ok(self)
    ELSE Panic("Cannot negate a Positive value!")

neg(self) == Panic("Cannot negate a Positive value!")

add_assign(self, other) == Wrap(DecAdd(self, other))

----------------------------------------------------------------------------
(* Operators with a signed Decimal on the right.                           *)

add_Decimal(self, rhs) == Wrap(DecAdd(self, rhs))

add_refDecimal(self, rhs) ==
    Checked(DecAdd(self, rhs), "Addition result must be positive")

sub_Decimal(self, rhs) ==
    Checked(DecSub(self, rhs), "Resulting value must be positive")

sub_refDecimal(self, rhs) ==
    Checked(DecSub(self, rhs), "Resulting value must be positive")

add_assign_Decimal(self, rhs) == Wrap(DecAdd(self, rhs))

mul_assign_Decimal(self, rhs) == Wrap(DecMul(self, rhs))

div_Decimal(self, rhs) == Wrap(DecDiv(self, rhs))

div_refDecimal(self, rhs) ==
    Checked(DecDiv(self, rhs), "Division result must be positive")

mul_Decimal(self, rhs) == Wrap(DecMul(self, rhs))

----------------------------------------------------------------------------
(* Outbound accessors.                                                     *)

\* Decimal::to_f64: the nearest float; it exists for every Decimal.
Decimal_to_f64(d) == SomeVal(F64Mk(d.m, d.e))

to_f64(self) ==
    expect_some(Decimal_to_f64(self),
                "Decimal to f64 conversion failed - value out of range")
to_f64_checked(self) == Decimal_to_f64(self)
to_f64_lossy(self) == unwrap_or(Decimal_to_f64(self), F64Fin(0, 0))

\* The integer part of a Decimal (fraction dropped, towards zero).
Trunc(d) == IF d.m < 0 THEN -(Abs(d.m) \div Pow10(d.e)) ELSE d.m \div Pow10(d.e)

\* Decimal::to_i64, to_u64, to_usize: the integer part if the target type
\* holds it.  usize is as wide as u64.
I64s == (-(I64Max + 1))..I64Max
U64s == 0..U64Max
USizeMax == U64Max
USizes == 0..USizeMax
Decimal_to_i64(d) == IF Trunc(d) \in I64s THEN SomeVal(Trunc(d)) ELSE None
Decimal_to_u64(d) ==
    IF d.m >= 0 /\ Trunc(d) \in U64s THEN SomeVal(Trunc(d)) ELSE None
Decimal_to_usize(d) ==
    IF d.m >= 0 /\ Trunc(d) \in USizes THEN SomeVal(Trunc(d)) ELSE None

\* Variant of to_i64 that gives the largest i64 instead of panicking.
to_i64_saturating(self) == unwrap_or(Decimal_to_i64(self), I64Max)

to_i64(self) ==
    expect_some(Decimal_to_i64(self),
                "Decimal to i64 conversion failed - value out of range")
to_i64_checked(self) == Decimal_to_i64(self)

to_u64(self) ==
    expect_some(Decimal_to_u64(self),
                "Decimal to u64 conversion failed - value out of range")
to_u64_checked(self) == Decimal_to_u64(self)

to_usize(self) ==
    expect_some(Decimal_to_usize(self),
                "Decimal to usize conversion failed - value out of range")
to_usize_checked(self) == Decimal_to_usize(self)

----------------------------------------------------------------------------
(* Operators with a float on the right: float arithmetic on self.to_f64(), *)
(* then Positive::new and expect.                                          *)

mul_f64(self, rhs) ==
    LET f == to_f64(self)
    IN  IF f.kind = "Abort" THEN f
        ELSE expect(new(F64Mul(f.val, rhs)),
                    "Multiplication result must be positive")

div_f64(self, rhs) ==
    LET f == to_f64(self)
    IN  IF f.kind = "Abort" THEN f
        ELSE expect(new(F64Div(f.val, rhs)), "Division result must be positive")

div_f64_ref(self, rhs) ==
    LET f == to_f64(self)
    IN  IF f.kind = "Abort" THEN f
        ELSE expect(new(F64Div(f.val, rhs)), "Division result must be positive")

\* Variant of sub_f64 that wraps the converted difference without the
\* constructor's sign check.
sub_f64_unvalidated(self, rhs) ==
    LET f == to_f64(self)
        dec == from_f64(F64Sub(f.val, rhs))
    IN  IF f.kind = "Abort" THEN f
        ELSE IF dec.st = "Ok" THEN Ok(dec.d)
        ELSE Panic("Subtraction result must be positive")

sub_f64(self, rhs) ==
    LET f == to_f64(self)
    IN  IF f.kind = "Abort" THEN f
        ELSE expect(new(F64Sub(f.val, rhs)),
                    "Subtraction result must be positive")

add_f64(self, rhs) ==
    LET f == to_f64(self)
    IN  IF f.kind = "Abort" THEN f
        ELSE expect(new(F64Add(f.val, rhs)), "Addition result must be positive")

----------------------------------------------------------------------------
(* Inbound conversions (TryFrom).                                          *)

\* Decimal::from of an i64 or a u64: every such integer is a Decimal.
Decimal_from(n) == Dec(n, 0)

\* `value as f64` of a usize: the nearest float.
usize_as_f64(n) == F64Fin(F64Round(n), 0)

try_from_f64(value) == new(value)
try_from_usize(value) == new(usize_as_f64(value))
try_from_Decimal(value) == new_decimal(value)
try_from_refDecimal(value) == new_decimal(value)
try_from_i64(value) == new_decimal(Decimal_from(value))
try_from_u64(value) == new_decimal(Decimal_from(value))

----------------------------------------------------------------------------
(* Comparison with a raw Decimal.                                          *)

\* The tolerance constant of the source (1e-16 of a 28-digit scale): here a
\* few units of the last place the decimal keeps, so that a non-zero value
\* can be below it; the source multiplies it by 100 (here EpsilonFactor)
\* in some of its uses.
EPSILON == Dec(EpsilonUnits, MaxScale)

DecAbs(a) == Dec(Abs(a.m), a.e)

\* Ordering of two Decimals, as Decimal::partial_cmp gives it.
DecCmp(a, b) ==
    IF DecLt(a, b) THEN "Less" ELSE IF DecGt(a, b) THEN "Greater" ELSE "Equal"

\* Positive == Decimal.
eq_Decimal(self, other) ==
    LET diff == DecSub(self, other)
        tol == DecMul(EPSILON, Decimal_from(EpsilonFactor))
    IN  IF diff.st # "Ok" THEN Panic(diff.st)
        ELSE IF tol.st # "Ok" THEN Panic(tol.st)
        ELSE Val(DecLe(DecAbs(diff.d), tol.d))

\* Positive.partial_cmp(&Decimal).
partial_cmp_Decimal(self, other) == SomeVal(DecCmp(self, other))

\* Decimal == Positive.
Decimal_eq_Positive(self, other) == Val(DecEq(self, other))

----------------------------------------------------------------------------
(* Equality and ordering of two Positive values.                           *)

\* Derived PartialEq: the backing Decimals are compared.
eq(self, other) == Val(DecEq(self, other))

\* Ord::cmp: partial_cmp of the backing Decimals, which always exists.
cmp(self, other) == Val(DecCmp(self, other))

partial_cmp(self, other) == SomeVal(cmp(self, other).val)

\* Variant of le that is strict (`<` for `<=`).
le_strict(self, other) == Val(DecLt(self, other))

le(self, other) == Val(DecLe(self, other))

ge(self, other) == Val(DecGe(self, other))

----------------------------------------------------------------------------
(* Divisibility.                                                           *)

\* Decimal's `%`: the remainder has the sign of the dividend; a zero divisor
\* panics.
DecRem(a, b) ==
    IF b.m = 0 THEN CalcDivByZero
    ELSE LET s == Max2(a.e, b.e)
             n == a.m * Pow10(s - a.e)
             d == b.m * Pow10(s - b.e)
             r == Abs(n) % Abs(d)
         IN  CalcOk(Dec(IF n < 0 THEN -r ELSE r, s))

is_zero(self) == Val(DecIsZero(self))

\* Variant of is_multiple_of without the test for a zero divisor.
is_multiple_of_unguarded(self, other) ==
    LET remainder == DecRem(self, other)
    IN  IF remainder.st # "Ok" THEN Panic(remainder.st)
        ELSE Val(DecLt(DecAbs(remainder.d), EPSILON))

is_multiple_of(self, other) ==
    LET remainder == DecRem(self, other)
    IN  IF is_zero(other).val THEN Val(FALSE)
        ELSE IF remainder.st # "Ok" THEN Panic(remainder.st)
        ELSE Val(DecLt(DecAbs(remainder.d), EPSILON))

----------------------------------------------------------------------------
(* Tolerance equality (approx::AbsDiffEq and approx::RelativeEq); the      *)
(* tolerances are signed Decimals.                                         *)

default_epsilon == Val(EPSILON)

default_max_relative ==
    LET r == DecMul(EPSILON, Decimal_from(EpsilonFactor))
    IN  IF r.st = "Ok" THEN Val(r.d) ELSE Panic(r.st)

abs_diff_eq(self, other, epsilon) ==
    LET diff == DecSub(self, other)
    IN  IF diff.st # "Ok" THEN Panic(diff.st)
        ELSE Val(DecLe(DecAbs(diff.d), epsilon))

DecMax(a, b) == IF DecLt(a, b) THEN b ELSE a

\* Variant of relative_eq that never looks at max_relative.
relative_eq_absolute_only(self, other, epsilon, max_relative) ==
    abs_diff_eq(self, other, epsilon)

\* `||` evaluates the product only when the first comparison is false.
relative_eq(self, other, epsilon, max_relative) ==
    LET diff == DecSub(self, other)
        largest == DecMax(DecAbs(self), DecAbs(other))
        prod == DecMul(max_relative, largest)
    IN  IF diff.st # "Ok" THEN Panic(diff.st)
        ELSE IF DecLe(DecAbs(diff.d), epsilon) THEN Val(TRUE)
        ELSE IF prod.st # "Ok" THEN Panic(prod.st)
        ELSE Val(DecLe(DecAbs(diff.d), prod.d))

----------------------------------------------------------------------------
(* Text rendering.  A text is a sequence of one-character strings.         *)

DigitChars == <<"0", "1", "2", "3", "4", "5", "6", "7", "8", "9">>
DigitChar(d) == DigitChars[d + 1]

\* The decimal digits of a natural number.
RECURSIVE NatStr(_)
NatStr(n) ==
    IF n < 10 THEN <<DigitChar(n)>>
    ELSE NatStr(n \div 10) \o <<DigitChar(n % 10)>>

\* The last w digits of n, with leading zeros.
RECURSIVE PadStr(_, _)
PadStr(n, w) ==
    IF w = 0 THEN <<>> ELSE PadStr(n \div 10, w - 1) \o <<DigitChar(n % 10)>>

IntStr(i) == IF i < 0 THEN <<"-">> \o NatStr(-i) ELSE NatStr(i)

\* What `{}` prints for f64::MAX: one long run of digits, kept as a token.
F64MAXText == <<"f64::MAX">>

\* Decimal's Display without a precision: every digit of the scale.
Decimal_to_string(d) ==
    (IF d.m < 0 THEN <<"-">> ELSE <<>>)
        \o NatStr(Abs(d.m) \div Pow10(d.e))
        \o (IF d.e = 0 THEN <<>>
            ELSE <<".">> \o PadStr(Abs(d.m) % Pow10(d.e), d.e))

\* Decimal's Display with a precision: the fraction is cut or zero-padded to
\* that many digits (tests/positive_tests.rs:53-59 fixes the cut).
Decimal_to_string_precision(d, n) ==
    (IF d.m < 0 THEN <<"-">> ELSE <<>>)
        \o NatStr(Abs(d.m) \div Pow10(d.e))
        \o (IF n = 0 THEN <<>>
            ELSE <<".">> \o
                 (IF n >= d.e
                  THEN PadStr((Abs(d.m) % Pow10(d.e)) * Pow10(n - d.e), n)
                  ELSE PadStr((Abs(d.m) % Pow10(d.e)) \div Pow10(d.e - n), n)))

\* str::trim_end_matches with a character.
RECURSIVE trim_end_matches(_, _)
trim_end_matches(s, c) ==
    IF s # <<>> /\ s[Len(s)] = c
    THEN trim_end_matches(SubSeq(s, 1, Len(s) - 1), c)
    ELSE s

\* The formatter's precision: absent, or a number of digits.
NoPrecision == [given |-> FALSE, digits |-> 0]
Precision(n) == [given |-> TRUE, digits |-> n]

\* Variant of fmt_Display that trims the zeros but leaves the point.
fmt_Display_keeping_point(self, precision) ==
    IF DecEq(self, DecMAX) THEN Val(F64MAXText)
    ELSE IF self.e = 0
    THEN (IF Decimal_to_i64(self).kind = "SomeVal"
          THEN Val(IntStr(Decimal_to_i64(self).val))
          ELSE Val(Decimal_to_string(self)))
    ELSE IF precision.given
    THEN Val(Decimal_to_string_precision(self, precision.digits))
    ELSE Val(trim_end_matches(Decimal_to_string(self), "0"))

\* Display for Positive.
fmt_Display(self, precision) ==
    IF DecEq(self, DecMAX) THEN Val(F64MAXText)
    ELSE IF self.e = 0
    THEN (IF Decimal_to_i64(self).kind = "SomeVal"
          THEN Val(IntStr(Decimal_to_i64(self).val))
          ELSE Val(Decimal_to_string(self)))
    ELSE IF precision.given
    THEN Val(Decimal_to_string_precision(self, precision.digits))
    ELSE Val(trim_end_matches(trim_end_matches(Decimal_to_string(self), "0"),
                              "."))

\* Decimal::round_dp: at most n fractional digits, half to even.
Decimal_round_dp(d, n) ==
    IF n >= d.e THEN d ELSE Dec(RoundQuot(d.m, Pow10(d.e - n)), n)

round_to(self, decimal_places) == Ok(Decimal_round_dp(self, decimal_places))

\* `{:.n}` of a float: rounded to n fractional digits, all of them printed.
format_f64(v, n) ==
    Decimal_to_string(
        Dec(IF n >= v.e THEN v.m * Pow10(n - v.e)
            ELSE RoundQuot(v.m, Pow10(v.e - n)), n))

format_fixed_places(self, decimal_places) ==
    LET rounded == to_f64(round_to(self, decimal_places).val)
    IN  IF rounded.kind = "Abort" THEN rounded
        ELSE Val(format_f64(rounded.val, decimal_places))

----------------------------------------------------------------------------
(* Encoding and decoding (serde).                                          *)

\* f64::MAX: finite, and far beyond anything a Decimal holds.
F64MAX == [cls |-> "max", m |-> 0, e |-> 0]

\* The literals a serializer is handed.
IntegerLiteral(n) == [form |-> "integer", v |-> n]
FloatLiteral(v) == [form |-> "float", v |-> v]

\* Serialize for Positive.
serialize(self) ==
    IF DecEq(self, DecMAX) THEN Val(FloatLiteral(F64MAX))
    ELSE IF self.e = 0
    THEN (IF Decimal_to_i64(self).kind = "SomeVal"
          THEN Val(IntegerLiteral(Decimal_to_i64(self).val))
          ELSE Err("Failed to convert to i64"))
    ELSE (IF Decimal_to_f64(self).kind = "SomeVal"
          THEN Val(FloatLiteral(Decimal_to_f64(self).val))
          ELSE Err("Failed to convert to f64"))

\* Result::map_err(serde::de::Error::custom): the error becomes a data error.
map_err(r) == IF r.kind = "Ok" THEN r ELSE Err("custom: " \o r.err)

\* The visitor of Deserialize for Positive.
visit_str(value) == Err("Invalid string. Expected a positive number.")

visit_i64(value) ==
    IF value < 0 THEN Err("Expected a non-negative integer")
    ELSE map_err(new_decimal(Decimal_from(value)))

visit_u64(value) == map_err(new_decimal(Decimal_from(value)))

\* Variant of visit_f64 that hands every float to Positive::new.
visit_f64_through_new(value) == map_err(new(value))

visit_f64(value) ==
    IF value.cls = "inf" THEN Ok(INFINITY)
    ELSE IF value = F64MAX THEN Ok(INFINITY)
    ELSE IF from_f64(value).st # "Ok"
    THEN Err("Failed to convert f64 to Decimal")
    ELSE IF value.m < 0 THEN Err("Expected a non-negative float")
    ELSE map_err(new_decimal(from_f64(value).d))

\* Deserializer::deserialize_any on a number literal: the visitor method of
\* the literal's kind (a non-negative integer is handed over as a u64).
deserialize(literal) ==
    IF literal.form = "integer"
    THEN (IF literal.v < 0 THEN visit_i64(literal.v) ELSE visit_u64(literal.v))
    ELSE visit_f64(literal.v)

\* Encoding a value and decoding what was written.
encode_decode(self) ==
    IF serialize(self).kind # "Val" THEN serialize(self)
    ELSE deserialize(serialize(self).val)

----------------------------------------------------------------------------
(* Summation of an iterator of Positive values.                            *)

\* Iterator::fold with Decimal's `+`, which panics on overflow.
RECURSIVE fold_add(_, _)
fold_add(acc, iter) ==
    IF acc.st # "Ok" \/ iter = <<>> THEN acc
    ELSE fold_add(DecAdd(acc.d, Head(iter)), Tail(iter))

\* Variant of sum that falls back to ZERO when the fold overflows.
sum_falling_back_on_overflow(iter) ==
    LET s == fold_add(CalcOk(DecZERO), iter)
    IN  IF s.st # "Ok" THEN Ok(ZERO)
        ELSE IF new_decimal(s.d).kind = "Ok" THEN new_decimal(s.d)
        ELSE Ok(ZERO)

\* Sum for Positive (owned items).
sum(iter) ==
    LET s == fold_add(CalcOk(DecZERO), iter)
    IN  IF s.st # "Ok" THEN Panic(s.st)
        ELSE IF new_decimal(s.d).kind = "Ok" THEN new_decimal(s.d)
        ELSE Ok(ZERO)

\* Sum<&Positive> for Positive (borrowed items).
sum_ref(iter) ==
    LET s == fold_add(CalcOk(DecZERO), iter)
    IN  IF s.st # "Ok" THEN Panic(s.st)
        ELSE IF new_decimal(s.d).kind = "Ok" THEN new_decimal(s.d)
        ELSE Ok(ZERO)

----------------------------------------------------------------------------
(* Parsing text.                                                           *)

IsDigit(c) == \E d \in 0..9 : DigitChar(d) = c
DigitOf(c) == CHOOSE d \in 0..9 : DigitChar(d) = c

\* The index of the first point of a text, or one past its end.
RECURSIVE PointAt(_, _)
PointAt(s, i) ==
    IF i > Len(s) \/ s[i] = "." THEN i ELSE PointAt(s, i + 1)

CalcInvalid == [st |-> "Invalid", d |-> DecZERO]

\* Digits before the point: each one extends the mantissa or overflows.
RECURSIVE ParseInteger(_, _)
ParseInteger(m, digits) ==
    IF digits = <<>> THEN CalcOk(Dec(m, 0))
    ELSE IF m * 10 + DigitOf(Head(digits)) > MaxMantissa THEN CalcOverflow
    ELSE ParseInteger(m * 10 + DigitOf(Head(digits)), Tail(digits))

\* Digits after the point: each one extends the mantissa and the scale; the
\* first one that no longer fits rounds the value up when it is 5 or more,
\* and the rest are dropped.
RECURSIVE ParseFraction(_, _, _)
ParseFraction(m, e, digits) ==
    IF digits = <<>> THEN CalcOk(Dec(m, e))
    ELSE IF e = MaxScale \/ m * 10 + DigitOf(Head(digits)) > MaxMantissa
         THEN (IF DigitOf(Head(digits)) < 5 THEN CalcOk(Dec(m, e))
               ELSE IF m + 1 > MaxMantissa THEN CalcOverflow
               ELSE CalcOk(Dec(m + 1, e)))
    ELSE ParseFraction(m * 10 + DigitOf(Head(digits)), e + 1, Tail(digits))

\* Decimal::from_str on an unsigned body: digits with at most one point and
\* at least one digit.
Decimal_from_str_unsigned(body) ==
    LET p == PointAt(body, 1)
        whole == SubSeq(body, 1, p - 1)
        frac == SubSeq(body, p + 1, Len(body))
        int == ParseInteger(0, whole)
    IN  IF \E i \in 1..Len(whole) : ~IsDigit(whole[i]) THEN CalcInvalid
        ELSE IF \E i \in 1..Len(frac) : ~IsDigit(frac[i]) THEN CalcInvalid
        ELSE IF whole = <<>> /\ frac = <<>> THEN CalcInvalid
        ELSE IF int.st # "Ok" THEN int
        ELSE ParseFraction(int.d.m, 0, frac)

\* Decimal::from_str: an optional sign, then the unsigned body.
Decimal_from_str(s) ==
    IF s # <<>> /\ Head(s) = "-"
    THEN (IF Decimal_from_str_unsigned(Tail(s)).st # "Ok"
          THEN Decimal_from_str_unsigned(Tail(s))
          ELSE CalcOk(DecNeg(Decimal_from_str_unsigned(Tail(s)).d)))
    ELSE IF s # <<>> /\ Head(s) = "+" THEN Decimal_from_str_unsigned(Tail(s))
    ELSE Decimal_from_str_unsigned(s)

\* Variant of from_str that accepts only values above zero.
from_str_rejecting_zero(s) ==
    LET parsed == Decimal_from_str(s)
    IN  IF parsed.st = "Ok" /\ DecGt(parsed.d, DecZERO) THEN Ok(parsed.d)
        ELSE IF parsed.st = "Ok" THEN Err("Value must be positive")
        ELSE Err("Failed to parse as Decimal")

\* FromStr for Positive.
from_str(s) ==
    LET parsed == Decimal_from_str(s)
    IN  IF parsed.st = "Ok" /\ DecGe(parsed.d, DecZERO) THEN Ok(parsed.d)
        ELSE IF parsed.st = "Ok" THEN Err("Value must be positive")
        ELSE Err("Failed to parse as Decimal")
\* `x.to_string().parse::<Positive>()`: Display without a precision, then
\* FromStr on the text.
to_string_parse(self) == from_str(fmt_Display(self, NoPrecision).val)


----------------------------------------------------------------------------
(* Mathematical helpers.  The library computes roots, logarithms and       *)
(* exponentials to the decimal's full precision; here they are computed in *)
(* integers to a few digits and brought into range by Fit.                 *)

\* Decimal::floor, ceil and round (half to even): integers at scale 0.
DecFloor(d) ==
    LET q == Abs(d.m) \div Pow10(d.e)
        exact == Abs(d.m) % Pow10(d.e) = 0
    IN  Dec(IF d.m >= 0 THEN q ELSE IF exact THEN -q ELSE -(q + 1), 0)

DecCeil(d) == DecNeg(DecFloor(DecNeg(d)))

DecRound(d) == Decimal_round_dp(d, 0)

\* Decimal::sqrt: none for a negative value, else the root cut after one
\* digit more than the scale holds.
DecSqrt(d) ==
    LET v == Num(d) * Pow10(MaxScale + 2)
        r == CHOOSE r \in 0..((MaxMantissa + 1) * Pow10(MaxScale + 1)) :
                 r * r <= v /\ v < (r + 1) * (r + 1)
    IN  IF d.m < 0 THEN CalcNone ELSE Fit(r, MaxScale + 1)

\* The number of digits of a positive integer, less one.
RECURSIVE Magnitude(_)
Magnitude(u) == IF u < 10 THEN 0 ELSE 1 + Magnitude(u \div 10)

\* 1000 * 10^(j/10) for j = 1..9.
Log10Steps == <<1259, 1585, 1995, 2512, 3162, 3981, 5012, 6310, 7943>>

\* log10 of a positive value in tenths, rounded down.
Log10Tenths(d) ==
    LET u == Num(d)
        k == Magnitude(u)
        j == Cardinality({i \in 1..9 : u * 1000 >= Log10Steps[i] * Pow10(k)})
    IN  10 * (k - MaxScale) + j

\* Decimal::log10 and Decimal::ln: panic for zero and for negative values.
DecLog10(d) == IF d.m <= 0 THEN CalcNone ELSE Fit(Log10Tenths(d), 1)

DecLn(d) ==
    IF d.m <= 0 THEN CalcNone
    ELSE Fit(RoundQuot(Log10Tenths(d) * 2303, 1000), 1)

\* e^f in thousandths for a fraction f given in thousandths: the series
\* 1 + f + f^2/2 + ..., term by term.
RECURSIVE ExpSeries(_, _, _)
ExpSeries(term, f, k) ==
    IF term = 0 THEN 0
    ELSE term + ExpSeries((term * f) \div (1000 * k), f, k + 1)

\* v * e^w in thousandths for a natural w, or more than the largest value.
RECURSIVE ExpWhole(_, _)
ExpWhole(v, w) ==
    IF w = 0 \/ v > (MaxMantissa + 1) * 1000 THEN v
    ELSE ExpWhole((v * 2718) \div 1000, w - 1)

\* Decimal::exp: panics when the result is out of range.
DecExp(d) ==
    LET a == DecAbs(d)
        w == Trunc(a)
        f == ((a.m % Pow10(a.e)) * 1000) \div Pow10(a.e)
        v == ExpWhole(ExpSeries(1000, f, 1), w)
    IN  IF v > (MaxMantissa + 1) * 1000 THEN CalcOverflow
        ELSE IF d.m < 0 THEN DecDiv(DecONE, Fit(v, 3).d)
        ELSE Fit(v, 3)

floor(self) == Ok(DecFloor(self))
ceiling(self) == Ok(DecCeil(self))
round(self) == Ok(DecRound(self))

sqrt(self) ==
    IF DecSqrt(self).st # "Ok" THEN Panic("Square root calculation failed")
    ELSE Ok(DecSqrt(self).d)

sqrt_checked(self) ==
    IF DecSqrt(self).st # "Ok" THEN Err("arithmetic error: sqrt")
    ELSE Ok(DecSqrt(self).d)

ln(self) == Wrap(DecLn(self))
log10(self) == Wrap(DecLog10(self))
exp(self) == Wrap(DecExp(self))

----------------------------------------------------------------------------
(* Rounding to a nice number.                                              *)

TEN == Dec(10, 0)

\* Decimal raised to a Decimal power: an integral exponent is a repeated
\* multiplication (a division for a negative one), any other exponent is
\* e^(exp * ln self).
DecPowd(a, x) ==
    IF x.m = 0 THEN CalcOk(DecONE)
    ELSE IF a.m = 0 THEN CalcOk(DecZERO)
    ELSE IF x.m % Pow10(x.e) = 0 THEN DecPowi(a, Trunc(x))
    ELSE IF DecLn(a).st # "Ok" THEN CalcOverflow
    ELSE IF DecMul(x, DecLn(a).d).st # "Ok" THEN CalcOverflow
    ELSE DecExp(DecMul(x, DecLn(a).d).d)

pow(self, n) == Wrap(DecPowd(self, n))

\* The literals 3.0, 5.0, 7.0 and 10.0 are exact as floats, and so is the
\* Positive each one makes.
round_to_nice_number(self) ==
    LET logged == log10(self)
        magnitude == floor(logged.val)
        ten_pow == pow(TEN, magnitude.val)
        normalized == div(self, ten_pow.val)
        nice_number ==
            IF partial_cmp_Decimal(normalized.val, Dec(15, 1)).val = "Less"
            THEN ONE
            ELSE IF partial_cmp(normalized.val, Dec(3, 0)).val = "Less"
            THEN TWO
            ELSE IF partial_cmp(normalized.val, Dec(7, 0)).val = "Less"
            THEN Dec(5, 0)
            ELSE TEN
        exponent == to_u64(magnitude.val)
        scale == powu(TEN, exponent.val)
    IN  IF logged.kind # "Ok" THEN logged
        ELSE IF ten_pow.kind # "Ok" THEN ten_pow
        ELSE IF normalized.kind # "Ok" THEN normalized
        ELSE IF exponent.kind # "Val" THEN exponent
        ELSE IF scale.kind # "Ok" THEN scale
        ELSE mul(nice_number, scale.val)

----------------------------------------------------------------------------
(* Clamping.                                                               *)

\* Variant of clamp that lets values above max through.
clamp_ignoring_max(self, min, max) ==
    IF partial_cmp(self, min).val = "Less" THEN Ok(min)
    ELSE Ok(self)

clamp(self, min, max) ==
    IF partial_cmp(self, min).val = "Less" THEN Ok(min)
    ELSE IF partial_cmp(self, max).val = "Greater" THEN Ok(max)
    ELSE Ok(self)

----------------------------------------------------------------------------
(* A program that owns one Positive, calls the API on it and may keep what *)
(* a call returns as its new value.                                        *)

VARIABLES
    pos,    \* backing Decimal of the Positive the program owns
    last,   \* the call just made: operation, self, argument, outcome
    pc      \* "ready", "returned" (outcome not yet consumed) or "aborted"

vars == <<pos, last, pc>>

Positives == {d \in Decimals : d.m >= 0}

Exps == (-MaxExp)..MaxExp
UExps == 0..MaxExp

Consts == {ZERO, ONE, TWO, INFINITY}

NoCall == [op |-> "none", lhs |-> DecZERO, rhs |-> DecZERO, out |-> None]

\* Default::default() is ZERO.
\* Tolerances a caller passes: none, the defaults, a negative one, a few
\* units of the last place and a large factor.
Epsilons == {DecZERO, EPSILON, Dec(-1, MaxScale)}
MaxRelatives == {Dec(EpsilonFactor, MaxScale), Dec(3, MaxScale), DecTWO}

\* What a format string asks of Display: `{}` or `{:.n}`.
Precisions == {NoPrecision} \cup {Precision(n) : n \in 0..MaxPrecision}

\* String literals a decoder may meet: numbers spelled out, and others.
Strings ==
    {Decimal_to_string(d) : d \in {DecZERO, DecONE, Dec(-1, 0), Dec(1, MaxScale)}}
        \cup {<<>>, <<"a">>}

\* Iterators a caller sums: up to MaxSumLen valid values, small, fractional
\* and near the largest value.
SumItems == {DecZERO, DecONE, Dec(4, 1), Dec(MaxMantissa - 1, 0)}
Iterators == UNION {[1..n -> SumItems] : n \in 0..MaxSumLen}

\* Texts a caller parses: numbers as Decimal prints them, signed and
\* unsigned, with more digits than the decimal holds, and malformed ones.
Texts ==
    {Decimal_to_string(d) :
        d \in {DecZERO, DecONE, Dec(-1, 0), Dec(1, MaxScale), Dec(-5, MaxScale),
               Dec(0, MaxScale), Dec(10, 1), Dec(MaxMantissa, 0),
               Dec(MaxMantissa + 1, 0), Dec(75, MaxScale + 1),
               Dec(MaxMantissa * 10 + 5, 1)}}
        \cup {<<>>, <<"x">>, <<"1", "x">>, <<"-">>, <<".">>, <<"1", ".">>,
              <<".", "5">>, <<"+", "1">>, <<"-", "0">>, <<"-", "0", ".", "0">>,
              <<"0", "7">>, <<"1", ".", "2", ".", "3">>}

\* Bounds a caller clamps to: in order, equal and reversed pairs arise.
ClampBounds == {ZERO, Dec(5, 1), ONE, TWO, Dec(3, 0), DecMAX}

Init ==
    /\ pos = ZERO
    /\ last = NoCall
    /\ pc = "ready"

\* A call of `name` on the owned value with argument `arg` and outcome `out`.
Call(name, arg, out) ==
    /\ pc = "ready"
    /\ last' = [op |-> name, lhs |-> pos, rhs |-> arg, out |-> out]
    /\ pc' = IF out.kind = "Abort" THEN "aborted" ELSE "returned"
    /\ UNCHANGED pos

\* A call of an in-place operator: the owned value itself is overwritten.
CallAssign(name, arg, out) ==
    /\ pc = "ready"
    /\ last' = [op |-> name, lhs |-> pos, rhs |-> arg, out |-> out]
    /\ pc' = IF out.kind = "Abort" THEN "aborted" ELSE "returned"
    /\ pos' = IF out.kind = "Abort" THEN pos ELSE out.val

\* One action per operation; each tests that the program is ready for a
\* call before it draws the operation's inputs.
New ==
    /\ pc = "ready"
    /\ \E v \in F64s : Call("new", v, new(v))
NewDecimal ==
    /\ pc = "ready"
    /\ \E d \in Decimals : Call("new_decimal", d, new_decimal(d))
PosMacro ==
    /\ pc = "ready"
    /\ \E v \in F64s : Call("pos!", v, pos_macro(v))
PosOrPanicMacro ==
    /\ pc = "ready"
    /\ \E v \in F64s : Call("pos_or_panic!", v, pos_or_panic(v))
SposMacro ==
    /\ pc = "ready"
    /\ \E v \in F64s : Call("spos!", v, spos(v))
Constant ==
    /\ pc = "ready"
    /\ \E c \in Consts : Call("const", c, Ok(c))

Powi ==
    /\ pc = "ready"
    /\ \E n \in Exps : Call("powi", n, powi(pos, n))
Powu ==
    /\ pc = "ready"
    /\ \E n \in UExps : Call("powu", n, powu(pos, n))
SubOrZero ==
    /\ pc = "ready"
    /\ \E d \in Decimals : Call("sub_or_zero", d, sub_or_zero(pos, d))
SubOrNone ==
    /\ pc = "ready"
    /\ \E d \in Decimals : Call("sub_or_none", d, sub_or_none(pos, d))
CheckedSub ==
    /\ pc = "ready"
    /\ \E b \in Positives : Call("checked_sub", b, checked_sub(pos, b))
SaturatingSub ==
    /\ pc = "ready"
    /\ \E b \in Positives : Call("saturating_sub", b, saturating_sub(pos, b))
CheckedDiv ==
    /\ pc = "ready"
    /\ \E b \in Positives : Call("checked_div", b, checked_div(pos, b))

AddPositive ==
    /\ pc = "ready"
    /\ \E b \in Positives : Call("add", b, add(pos, b))
SubPositive ==
    /\ pc = "ready"
    /\ \E b \in Positives : Call("sub", b, sub(pos, b))
DivPositive ==
    /\ pc = "ready"
    /\ \E b \in Positives : Call("div", b, div(pos, b))
MulPositive ==
    /\ pc = "ready"
    /\ \E b \in Positives : Call("mul", b, mul(pos, b))
NegPositive ==
    /\ pc = "ready"
    /\ Call("neg", DecZERO, neg(pos))
AddAssignPositive ==
    /\ pc = "ready"
    /\ \E b \in Positives : CallAssign("add_assign", b, add_assign(pos, b))

AddDecimal ==
    /\ pc = "ready"
    /\ \E d \in Decimals : Call("add_Decimal", d, add_Decimal(pos, d))
AddRefDecimal ==
    /\ pc = "ready"
    /\ \E d \in Decimals : Call("add_refDecimal", d, add_refDecimal(pos, d))
SubDecimal ==
    /\ pc = "ready"
    /\ \E d \in Decimals : Call("sub_Decimal", d, sub_Decimal(pos, d))
SubRefDecimal ==
    /\ pc = "ready"
    /\ \E d \in Decimals : Call("sub_refDecimal", d, sub_refDecimal(pos, d))
AddAssignDecimal ==
    /\ pc = "ready"
    /\ \E d \in Decimals :
        CallAssign("add_assign_Decimal", d, add_assign_Decimal(pos, d))
MulAssignDecimal ==
    /\ pc = "ready"
    /\ \E d \in Decimals :
        CallAssign("mul_assign_Decimal", d, mul_assign_Decimal(pos, d))
DivDecimal ==
    /\ pc = "ready"
    /\ \E d \in Decimals : Call("div_Decimal", d, div_Decimal(pos, d))
DivRefDecimal ==
    /\ pc = "ready"
    /\ \E d \in Decimals : Call("div_refDecimal", d, div_refDecimal(pos, d))
MulDecimal ==
    /\ pc = "ready"
    /\ \E d \in Decimals : Call("mul_Decimal", d, mul_Decimal(pos, d))

MulF64 ==
    /\ pc = "ready"
    /\ \E v \in F64s : Call("mul_f64", v, mul_f64(pos, v))
DivF64 ==
    /\ pc = "ready"
    /\ \E v \in F64s : Call("div_f64", v, div_f64(pos, v))
DivF64Ref ==
    /\ pc = "ready"
    /\ \E v \in F64s : Call("div_f64_ref", v, div_f64_ref(pos, v))
SubF64 ==
    /\ pc = "ready"
    /\ \E v \in F64s : Call("sub_f64", v, sub_f64(pos, v))
AddF64 ==
    /\ pc = "ready"
    /\ \E v \in F64s : Call("add_f64", v, add_f64(pos, v))

\* Accessors take no argument.
ToF64 ==
    /\ pc = "ready"
    /\ Call("to_f64", DecZERO, to_f64(pos))
ToF64Checked ==
    /\ pc = "ready"
    /\ Call("to_f64_checked", DecZERO, to_f64_checked(pos))
ToF64Lossy ==
    /\ pc = "ready"
    /\ Call("to_f64_lossy", DecZERO, to_f64_lossy(pos))
ToI64 ==
    /\ pc = "ready"
    /\ Call("to_i64", DecZERO, to_i64(pos))
ToI64Checked ==
    /\ pc = "ready"
    /\ Call("to_i64_checked", DecZERO, to_i64_checked(pos))
ToU64 ==
    /\ pc = "ready"
    /\ Call("to_u64", DecZERO, to_u64(pos))
ToU64Checked ==
    /\ pc = "ready"
    /\ Call("to_u64_checked", DecZERO, to_u64_checked(pos))
ToUsize ==
    /\ pc = "ready"
    /\ Call("to_usize", DecZERO, to_usize(pos))
ToUsizeChecked ==
    /\ pc = "ready"
    /\ Call("to_usize_checked", DecZERO, to_usize_checked(pos))

TryFromF64 ==
    /\ pc = "ready"
    /\ \E v \in F64s : Call("try_from_f64", v, try_from_f64(v))
TryFromUsize ==
    /\ pc = "ready"
    /\ \E n \in USizes : Call("try_from_usize", n, try_from_usize(n))
TryFromDecimal ==
    /\ pc = "ready"
    /\ \E d \in Decimals : Call("try_from_Decimal", d, try_from_Decimal(d))
TryFromRefDecimal ==
    /\ pc = "ready"
    /\ \E d \in Decimals : Call("try_from_refDecimal", d, try_from_refDecimal(d))
TryFromI64 ==
    /\ pc = "ready"
    /\ \E n \in I64s : Call("try_from_i64", n, try_from_i64(n))
TryFromU64 ==
    /\ pc = "ready"
    /\ \E n \in U64s : Call("try_from_u64", n, try_from_u64(n))

EqDecimal ==
    /\ pc = "ready"
    /\ \E d \in Decimals : Call("eq_Decimal", d, eq_Decimal(pos, d))
PartialCmpDecimal ==
    /\ pc = "ready"
    /\ \E d \in Decimals :
        Call("partial_cmp_Decimal", d, partial_cmp_Decimal(pos, d))
DecimalEqPositive ==
    /\ pc = "ready"
    /\ \E d \in Decimals :
        Call("Decimal_eq_Positive", d, Decimal_eq_Positive(d, pos))

EqPositive ==
    /\ pc = "ready"
    /\ \E p \in Positives : Call("eq", p, eq(pos, p))
CmpPositive ==
    /\ pc = "ready"
    /\ \E p \in Positives : Call("cmp", p, cmp(pos, p))
PartialCmpPositive ==
    /\ pc = "ready"
    /\ \E p \in Positives : Call("partial_cmp", p, partial_cmp(pos, p))
LePositive ==
    /\ pc = "ready"
    /\ \E p \in Positives : Call("le", p, le(pos, p))
GePositive ==
    /\ pc = "ready"
    /\ \E p \in Positives : Call("ge", p, ge(pos, p))

DefaultEpsilon ==
    /\ pc = "ready"
    /\ Call("default_epsilon", DecZERO, default_epsilon)
DefaultMaxRelative ==
    /\ pc = "ready"
    /\ Call("default_max_relative", DecZERO, default_max_relative)
AbsDiffEq ==
    /\ pc = "ready"
    /\ \E p \in Positives, eps \in Epsilons \cup {DecTWO} :
        Call("abs_diff_eq",
             [other |-> p, epsilon |-> eps, max_relative |-> DecZERO],
             abs_diff_eq(pos, p, eps))
RelativeEq ==
    /\ pc = "ready"
    /\ \E p \in Positives, eps \in {DecZERO, EPSILON}, rel \in MaxRelatives :
        Call("relative_eq",
             [other |-> p, epsilon |-> eps, max_relative |-> rel],
             relative_eq(pos, p, eps, rel))

Display ==
    /\ pc = "ready"
    /\ \E p \in Precisions : Call("fmt_Display", p, fmt_Display(pos, p))
FormatFixedPlaces ==
    /\ pc = "ready"
    /\ \E n \in 0..MaxPrecision :
          Call("format_fixed_places", n, format_fixed_places(pos, n))

Serialize ==
    /\ pc = "ready"
    /\ Call("serialize", DecZERO, serialize(pos))
VisitStr ==
    /\ pc = "ready"
    /\ \E s \in Strings : Call("visit_str", s, visit_str(s))
VisitI64 ==
    /\ pc = "ready"
    /\ \E n \in I64s : Call("visit_i64", n, visit_i64(n))
VisitU64 ==
    /\ pc = "ready"
    /\ \E n \in U64s : Call("visit_u64", n, visit_u64(n))
VisitF64 ==
    /\ pc = "ready"
    /\ \E v \in F64s \cup {F64MAX} : Call("visit_f64", v, visit_f64(v))

EncodeDecode ==
    /\ pc = "ready"
    /\ Call("encode_decode", DecZERO, encode_decode(pos))

IsZero ==
    /\ pc = "ready"
    /\ Call("is_zero", DecZERO, is_zero(pos))
IsMultipleOf ==
    /\ pc = "ready"
    /\ \E p \in Positives : Call("is_multiple_of", p, is_multiple_of(pos, p))

Sum ==
    /\ pc = "ready"
    /\ \E it \in Iterators : Call("sum", it, sum(it))
SumRef ==
    /\ pc = "ready"
    /\ \E it \in Iterators : Call("sum_ref", it, sum_ref(it))

FromStr ==
    /\ pc = "ready"
    /\ \E s \in Texts : Call("from_str", s, from_str(s))

Floor ==
    /\ pc = "ready"
    /\ Call("floor", DecZERO, floor(pos))
Ceiling ==
    /\ pc = "ready"
    /\ Call("ceiling", DecZERO, ceiling(pos))
Round ==
    /\ pc = "ready"
    /\ Call("round", DecZERO, round(pos))
RoundTo ==
    /\ pc = "ready"
    /\ \E n \in 0..MaxPrecision : Call("round_to", n, round_to(pos, n))
Sqrt ==
    /\ pc = "ready"
    /\ Call("sqrt", DecZERO, sqrt(pos))
SqrtChecked ==
    /\ pc = "ready"
    /\ Call("sqrt_checked", DecZERO, sqrt_checked(pos))
Ln ==
    /\ pc = "ready"
    /\ Call("ln", DecZERO, ln(pos))
Log10 ==
    /\ pc = "ready"
    /\ Call("log10", DecZERO, log10(pos))
Exp ==
    /\ pc = "ready"
    /\ Call("exp", DecZERO, exp(pos))

RoundToNiceNumber ==
    /\ pc = "ready"
    /\ Call("round_to_nice_number", DecZERO, round_to_nice_number(pos))

Clamp ==
    /\ pc = "ready"
    /\ \E min \in ClampBounds, max \in ClampBounds :
          Call("clamp", [min |-> min, max |-> max], clamp(pos, min, max))

ToStringParse ==
    /\ pc = "ready"
    /\ Call("to_string_parse", DecZERO, to_string_parse(pos))

\* The program keeps the Positive a call returned as its value
\* (Positive is Copy: `p = p.op(x)`, `p = Positive::new(x)?`).
Bind ==
    /\ pc = "returned"
    /\ last.out.kind \in {"Ok", "Some"}
    /\ pos' = last.out.val
    /\ pc' = "ready"
    /\ last' = NoCall

\* The program drops the outcome (an error, a None, a value it does not
\* need) and carries on with the value it has.
Discard ==
    /\ pc = "returned"
    /\ pc' = "ready"
    /\ last' = NoCall
    /\ UNCHANGED pos

Next ==
    \/ New
    \/ NewDecimal
    \/ PosMacro
    \/ PosOrPanicMacro
    \/ SposMacro
    \/ Constant
    \/ Powi
    \/ Powu
    \/ SubOrZero
    \/ SubOrNone
    \/ CheckedSub
    \/ SaturatingSub
    \/ CheckedDiv
    \/ AddPositive
    \/ SubPositive
    \/ DivPositive
    \/ MulPositive
    \/ NegPositive
    \/ AddAssignPositive
    \/ AddDecimal
    \/ AddRefDecimal
    \/ SubDecimal
    \/ SubRefDecimal
    \/ AddAssignDecimal
    \/ MulAssignDecimal
    \/ DivDecimal
    \/ DivRefDecimal
    \/ MulDecimal
    \/ MulF64
    \/ DivF64
    \/ DivF64Ref
    \/ SubF64
    \/ AddF64
    \/ ToF64
    \/ ToF64Checked
    \/ ToF64Lossy
    \/ ToI64
    \/ ToI64Checked
    \/ ToU64
    \/ ToU64Checked
    \/ ToUsize
    \/ ToUsizeChecked
    \/ TryFromF64
    \/ TryFromUsize
    \/ TryFromDecimal
    \/ TryFromRefDecimal
    \/ TryFromI64
    \/ TryFromU64
    \/ EqDecimal
    \/ PartialCmpDecimal
    \/ DecimalEqPositive
    \/ EqPositive
    \/ CmpPositive
    \/ PartialCmpPositive
    \/ LePositive
    \/ GePositive
    \/ DefaultEpsilon
    \/ DefaultMaxRelative
    \/ AbsDiffEq
    \/ RelativeEq
    \/ Display
    \/ FormatFixedPlaces
    \/ Serialize
    \/ VisitStr
    \/ VisitI64
    \/ VisitU64
    \/ VisitF64
    \/ EncodeDecode
    \/ IsZero
    \/ IsMultipleOf
    \/ Sum
    \/ SumRef
    \/ FromStr
    \/ Floor
    \/ Ceiling
    \/ Round
    \/ RoundTo
    \/ Sqrt
    \/ SqrtChecked
    \/ Ln
    \/ Log10
    \/ Exp
    \/ RoundToNiceNumber
    \/ Clamp
    \/ ToStringParse
    \/ Bind
    \/ Discard

Spec == Init /\ [][Next]_vars

TypeOK ==
    /\ pos \in Decimals
    /\ pc \in {"ready", "returned", "aborted"}
    /\ last.out.kind \in {"Ok", "Some", "None", "Err", "Abort", "Val", "SomeVal"}
    /\ last.out.kind \notin {"Val", "SomeVal"} => last.out.val \in Decimals

----------------------------------------------------------------------------
(* Properties.                                                             *)

\* The call just made was made on a valid (non-negative) Positive.
ValidSelf == Num(last.lhs) >= 0

Returned == last.out.kind \in {"Ok", "Some"}

\* C1: every Positive that exists -- the one the program owns and any one a
\* call has just returned -- has a backing value >= 0.
C1_NonNegativeInvariant ==
    /\ Num(pos) >= 0
    /\ Returned => Num(last.out.val) >= 0

DecimalOperandOps ==
    {"add_Decimal", "sub_Decimal", "mul_Decimal", "div_Decimal",
     "add_assign_Decimal", "mul_assign_Decimal"}

\* C2: an operator with a signed Decimal on the right, applied to a valid
\* Positive, never returns or leaves behind a negative Positive: whenever it
\* does not abort, the value returned and the value owned are >= 0.
C2_DecimalOperandNeverNegative ==
    (last.op \in DecimalOperandOps /\ ValidSelf /\ last.out.kind # "Abort")
        => /\ Num(last.out.val) >= 0
           /\ Num(pos) >= 0

\* A finite float whose magnitude is at most Decimal::MAX / at least
\* Decimal::MAX + 1.
F64WithinMax(v) == Abs(v.m) <= MaxMantissa * Pow10(v.e)
F64BeyondMax(v) == Abs(v.m) >= (MaxMantissa + 1) * Pow10(v.e)

C4_NewDecimal ==
    last.op = "new_decimal" =>
        /\ (last.out.kind = "Err" /\ last.out.err = "OutOfBounds")
              <=> Num(last.rhs) < 0
        /\ Num(last.rhs) >= 0 => last.out = Ok(last.rhs)
        /\ last.out.kind \in {"Ok", "Err"}

\* C4 witness: new_decimal accepted a zero written with fractional digits.
C4_Witness ==
    /\ last.op = "new_decimal"
    /\ last.rhs.m = 0
    /\ last.rhs.e = MaxScale
    /\ last.out.kind = "Ok"

SubOps == {"checked_sub", "saturating_sub", "sub"}

\* C5: for valid a, b the three Positive-by-Positive subtractions agree:
\* when a >= b all three return the same value, the Decimal difference;
\* when a < b checked_sub is an error, saturating_sub is ZERO and `-` aborts.
C5_SubtractionsAgree ==
    (last.op \in SubOps /\ ValidSelf) =>
        LET a == last.lhs
            b == last.rhs
            cs == checked_sub(a, b)
            ss == saturating_sub(a, b)
            pl == sub(a, b)
        IN  /\ last.op = "checked_sub" => last.out = cs
            /\ last.op = "saturating_sub" => last.out = ss
            /\ last.op = "sub" => last.out = pl
            /\ IF DecGe(a, b)
               THEN /\ cs.kind = "Ok" /\ ss.kind = "Ok" /\ pl.kind = "Ok"
                    /\ DecEq(cs.val, ss.val)
                    /\ DecEq(cs.val, pl.val)
                    /\ DecEq(cs.val, DecSub(a, b).d)
                    /\ Num(cs.val) >= 0
               ELSE /\ cs.kind = "Err"
                    /\ ss = Ok(ZERO)
                    /\ pl.kind = "Abort"

\* C5 witness: the plain `-` was applied to two equal non-zero values and
\* returned.
C5_Witness ==
    /\ last.op = "sub"
    /\ last.lhs.m > 0
    /\ DecEq(last.lhs, last.rhs)
    /\ last.out.kind = "Ok"

\* C6: when the right operand exceeds the left, checked_sub returns an
\* ArithmeticError.
C6_CheckedSubArithmeticError ==
    (last.op = "checked_sub" /\ ValidSelf /\ DecGt(last.rhs, last.lhs))
        => (last.out.kind = "Err" /\ last.out.err = "ArithmeticError")

\* C7: checked_div(a, b) is an ArithmeticError iff b is zero; for b > 0 it
\* is Ok with the value of the plain a / b.
C7_CheckedDiv ==
    (last.op = "checked_div" /\ ValidSelf) =>
        /\ (last.out.kind = "Err" /\ last.out.err = "ArithmeticError")
              <=> DecIsZero(last.rhs)
        /\ ~DecIsZero(last.rhs) =>
              /\ last.out.kind = "Ok"
              /\ last.out = div(last.lhs, last.rhs)

SubOrOps == {"sub_or_zero", "sub_or_none"}

\* C8 (as stated): sub_or_zero and sub_or_none switch on the same condition:
\* operand >= self gives ZERO and None; operand < self gives self - operand
\* and Some(self - operand).
C8_SameSwitch ==
    (last.op \in SubOrOps /\ ValidSelf) =>
        LET a == last.lhs
            d == last.rhs
            z == sub_or_zero(a, d)
            n == sub_or_none(a, d)
        IN  IF DecGe(d, a)
            THEN z = Ok(ZERO) /\ n = None
            ELSE /\ z.kind = "Ok"
                 /\ n.kind = "Some"
                 /\ z.val = n.val
                 /\ z.val = DecSub(a, d).d

\* C8 (amended): sub_or_zero returns ZERO whenever operand >= self;
\* sub_or_none returns None only when operand > self and Some(zero) when
\* operand == self; when operand < self both return self - operand, unless
\* that subtraction overflows the Decimal (only a negative operand can make
\* it), in which case both abort.
C8_SwitchDiffersAtEquality ==
    (last.op \in SubOrOps /\ ValidSelf) =>
        LET a == last.lhs
            d == last.rhs
            z == sub_or_zero(a, d)
            n == sub_or_none(a, d)
            diff == DecSub(a, d)
        IN  /\ last.op = "sub_or_zero" => last.out = z
            /\ last.op = "sub_or_none" => last.out = n
            /\ DecGe(d, a) => z = Ok(ZERO)
            /\ DecGt(d, a) => n = None
            /\ DecEq(d, a) => (n.kind = "Some" /\ DecIsZero(n.val))
            /\ DecLt(d, a) =>
                  IF diff.st = "Ok"
                  THEN /\ z = Ok(diff.d)
                       /\ n = Some(diff.d)
                       /\ Num(diff.d) > 0
                  ELSE /\ z.kind = "Abort"
                       /\ n.kind = "Abort"
                       /\ Num(d) < 0

\* C8 witness: sub_or_none was given an operand equal to a non-zero self and
\* returned Some.
C8_Witness ==
    /\ last.op = "sub_or_none"
    /\ last.lhs.m > 0
    /\ DecEq(last.lhs, last.rhs)
    /\ last.out.kind = "Some"

InfallibleOps == {"add", "mul", "div", "powi", "powu"}

\* C10 (as stated): for valid operands +, *, /, powi and powu always return
\* a Positive >= 0: no error, no abort.
C10_InfallibleNeverFails ==
    (last.op \in InfallibleOps /\ ValidSelf) =>
        (last.out.kind = "Ok" /\ Num(last.out.val) >= 0)

\* The call divides by zero: x / ZERO, or a negative power of a value whose
\* positive power is zero (ZERO itself, or a value so small that the power
\* rounds to zero).
ZeroDivisor(op, a, b) ==
    \/ op = "div" /\ b.m = 0
    \/ /\ op = "powi"
       /\ b < 0
       /\ DecPowu(a, -b).st = "Ok"
       /\ DecPowu(a, -b).d.m = 0

\* The last multiplication of a^n has an exact product larger than
\* Decimal::MAX, or an earlier one has.
PowExceedsMax(a, n) ==
    /\ n >= 2
    /\ LET r == DecPowu(a, n - 1)
       IN  \/ r.st # "Ok"
           \/ r.d.m * a.m > MaxMantissa * Pow10(r.d.e + a.e)

\* A result of the call (the final one, a product on the way to a power, or
\* the inverse taken for a negative power) is larger than Decimal::MAX.
ExceedsMax(op, a, b) ==
    CASE op = "add" -> Num(a) + Num(b) > Num(DecMAX)
      [] op = "mul" -> a.m * b.m > MaxMantissa * Pow10(a.e + b.e)
      [] op = "div" ->
            b.m # 0 /\ a.m * Pow10(b.e) > MaxMantissa * b.m * Pow10(a.e)
      [] op = "powu" -> PowExceedsMax(a, b)
      [] op = "powi" ->
            \/ PowExceedsMax(a, Abs(b))
            \/ /\ b < 0
               /\ LET r == DecPowu(a, -b)
                  IN  /\ r.st = "Ok"
                      /\ r.d.m # 0
                      /\ Pow10(r.d.e) > MaxMantissa * r.d.m

\* C10 (amended): for valid operands +, *, /, powi and powu never return an
\* error or a negative Positive: each returns a Positive >= 0 or aborts, and
\* it aborts only on a zero divisor (x / ZERO, a negative power of a value
\* whose positive power is zero) or when a final or intermediate result
\* exceeds the Decimal's maximum; a zero divisor always aborts.
C10_InfallibleUnlessZeroDivisorOrOverflow ==
    (last.op \in InfallibleOps /\ ValidSelf) =>
        /\ last.out.kind \in {"Ok", "Abort"}
        /\ last.out.kind = "Ok" => Num(last.out.val) >= 0
        /\ last.out.kind = "Abort" =>
              \/ ZeroDivisor(last.op, last.lhs, last.rhs)
              \/ ExceedsMax(last.op, last.lhs, last.rhs)
        /\ ZeroDivisor(last.op, last.lhs, last.rhs) => last.out.kind = "Abort"

\* C10 witness: a non-zero value was divided by ZERO and the process
\* aborted.
C10_Witness ==
    /\ last.op = "div"
    /\ last.lhs.m > 0
    /\ DecIsZero(last.rhs)
    /\ pc = "aborted"

\* ---- C11 ----------------------------------------------------------------
F64Ops == {"mul_f64", "div_f64", "div_f64_ref", "sub_f64", "add_f64"}

\* The float the operator of the last call computed from self.to_f64() and
\* its right operand.
F64Result ==
    LET a == F64Mk(last.lhs.m, last.lhs.e)
    IN  CASE last.op = "mul_f64" -> F64Mul(a, last.rhs)
          [] last.op \in {"div_f64", "div_f64_ref"} -> F64Div(a, last.rhs)
          [] last.op = "sub_f64" -> F64Sub(a, last.rhs)
          [] OTHER -> F64Add(a, last.rhs)

\* A finite float that is negative as the backing decimal reads it (below
\* the decimal's range, or converting to a decimal below zero).
F64Negative(r) ==
    /\ r.cls = "fin"
    /\ IF from_f64(r).st = "Ok" THEN Num(from_f64(r).d) < 0 ELSE r.m < 0

\* A finite float above the largest value of the backing decimal.
F64AboveDecimal(r) == r.cls = "fin" /\ from_f64(r).st # "Ok" /\ r.m > 0

AbortingAccessors == {"to_f64", "to_i64", "to_u64", "to_usize"}
CheckedAccessors ==
    {"to_f64_checked", "to_i64_checked", "to_u64_checked", "to_usize_checked"}

\* What the checked accessor of the same target gives for the same value.
CheckedOf(op, self) ==
    CASE op \in {"to_f64", "to_f64_checked", "to_f64_lossy"} -> to_f64_checked(self)
      [] op \in {"to_i64", "to_i64_checked"} -> to_i64_checked(self)
      [] op \in {"to_u64", "to_u64_checked"} -> to_u64_checked(self)
      [] OTHER -> to_usize_checked(self)

\* What the aborting accessor of the same target gives for the same value.
AbortingOf(op, self) ==
    CASE op = "to_f64_checked" -> to_f64(self)
      [] op = "to_i64_checked" -> to_i64(self)
      [] op = "to_u64_checked" -> to_u64(self)
      [] OTHER -> to_usize(self)

\* C12: an aborting accessor panics exactly when the checked accessor of the
\* same target returns None and otherwise returns the same number;
\* to_f64_lossy returns 0.0 exactly when to_f64_checked is None and the same
\* number otherwise.
C12_AccessorsAgree ==
    /\ last.op \in AbortingAccessors =>
          IF CheckedOf(last.op, last.lhs).kind = "None"
          THEN last.out.kind = "Abort" /\ pc = "aborted"
          ELSE last.out = Val(CheckedOf(last.op, last.lhs).val)
    /\ last.op \in CheckedAccessors =>
          IF AbortingOf(last.op, last.lhs).kind = "Abort"
          THEN last.out = None
          ELSE last.out = SomeVal(AbortingOf(last.op, last.lhs).val)
    /\ last.op = "to_f64_lossy" =>
          IF CheckedOf(last.op, last.lhs).kind = "None"
          THEN last.out = Val(F64Fin(0, 0))
          ELSE last.out = Val(CheckedOf(last.op, last.lhs).val)

\* to_i64 panicked on a valid value too large for an i64, for which
\* to_i64_checked is None.
C12_Witness ==
    /\ last.op = "to_i64"
    /\ ValidSelf
    /\ Trunc(last.lhs) > I64Max
    /\ to_i64_checked(last.lhs) = None
    /\ pc = "aborted"

\* ---- C13 ----------------------------------------------------------------
\* C13: TryFrom<i64>, <f64>, <Decimal> and <&Decimal> fail with OutOfBounds
\* for every negative source and succeed with the same numeric value for
\* every non-negative representable source; TryFrom<u64> and TryFrom<usize>
\* succeed for every input with exactly the input's value.
C13_TryFrom ==
    /\ last.op = "try_from_i64" =>
          IF last.rhs < 0 THEN last.out = Err("OutOfBounds")
          ELSE last.out.kind = "Ok" /\ DecEq(last.out.val, Dec(last.rhs, 0))
    /\ last.op \in {"try_from_Decimal", "try_from_refDecimal"} =>
          IF Num(last.rhs) < 0 THEN last.out = Err("OutOfBounds")
          ELSE last.out.kind = "Ok" /\ DecEq(last.out.val, last.rhs)
    /\ last.op = "try_from_f64" =>
          IF last.rhs.cls = "ninf" \/ F64Negative(last.rhs)
          THEN last.out = Err("OutOfBounds")
          ELSE (last.rhs.cls = "fin" /\ from_f64(last.rhs).st = "Ok") =>
                  last.out = Ok(from_f64(last.rhs).d)
    /\ last.op \in {"try_from_u64", "try_from_usize"} =>
          last.out.kind = "Ok" /\ DecEq(last.out.val, Dec(last.rhs, 0))

\* ---- C14 ----------------------------------------------------------------
\* C14: for a valid Positive p and any Decimal d, p == d is true exactly when
\* p's backing value equals d, and exactly when p.partial_cmp(d) is Equal.
C14_EqDecimalExact ==
    (last.op = "eq_Decimal" /\ ValidSelf) =>
        /\ last.out = Val(DecEq(last.lhs, last.rhs))
        /\ last.out.val = TRUE <=>
              partial_cmp_Decimal(last.lhs, last.rhs) = SomeVal("Equal")

\* ---- C15 ----------------------------------------------------------------
AtMost(o) == o.val \in {"Less", "Equal"}

Reverse(o) ==
    CASE o = "Less" -> "Greater" [] o = "Greater" -> "Less" [] OTHER -> o

\* C15: a == b iff the backing values are equal; cmp is the order of the
\* backing values, a total order (antisymmetric, transitive, total) that is
\* Equal iff a == b; partial_cmp is Some of it; `<=` and `>=` agree with cmp.
C15_EqOrdOfBackingDecimal ==
    /\ last.op = "eq" => last.out = Val(Num(last.lhs) = Num(last.rhs))
    /\ last.op = "cmp" =>
          /\ last.out.kind = "Val"
          /\ last.out.val \in {"Less", "Equal", "Greater"}
          /\ (last.out.val = "Less") = (Num(last.lhs) < Num(last.rhs))
          /\ (last.out.val = "Greater") = (Num(last.lhs) > Num(last.rhs))
          /\ (last.out.val = "Equal") = eq(last.lhs, last.rhs).val
          /\ cmp(last.rhs, last.lhs).val = Reverse(last.out.val)
          /\ \A c \in Positives :
                (AtMost(last.out) /\ AtMost(cmp(last.rhs, c))) =>
                    AtMost(cmp(last.lhs, c))
    /\ last.op = "partial_cmp" =>
          last.out = SomeVal(cmp(last.lhs, last.rhs).val)
    /\ last.op = "le" =>
          last.out = Val(AtMost(cmp(last.lhs, last.rhs)))
    /\ last.op = "ge" =>
          last.out = Val(cmp(last.lhs, last.rhs).val \in {"Greater", "Equal"})

\* Two values written with different scales compared Equal, and `<=` was
\* true of them.
C15_Witness ==
    /\ last.op = "le"
    /\ last.lhs.m > 0
    /\ last.lhs.e # last.rhs.e
    /\ cmp(last.lhs, last.rhs) = Val("Equal")
    /\ last.out = Val(TRUE)

\* ---- C16 ----------------------------------------------------------------
\* |a - b| and max(|a|, |b|) in units of the last place (exact integers).
ExactAbsDiff(a, b) == Abs(Num(a) - Num(b))
ExactLargest(a, b) == Max2(Abs(Num(a)), Abs(Num(b)))

\* |a - b| <= rel * max(|a|, |b|), exactly.
ExactWithinRelative(a, b, rel) ==
    ExactAbsDiff(a, b) * Pow10(MaxScale) <= Num(rel) * ExactLargest(a, b)

DefaultsAsStated ==
    /\ last.op = "default_epsilon" => last.out = Val(EPSILON)
    /\ last.op = "default_max_relative" =>
          /\ last.out.kind = "Val"
          /\ Num(last.out.val) = EpsilonFactor * Num(EPSILON)

AbsDiffEqAsStated ==
    (last.op = "abs_diff_eq" /\ ValidSelf) =>
        /\ last.out =
              Val(ExactAbsDiff(last.lhs, last.rhs.other) <= Num(last.rhs.epsilon))
        /\ abs_diff_eq(last.rhs.other, last.lhs, last.rhs.epsilon) = last.out

\* C16 (as stated): abs_diff_eq is |a-b| <= eps and relative_eq is
\* |a-b| <= eps or |a-b| <= rel * max(|a|,|b|), for all valid a, b and all
\* tolerances; the defaults are EPSILON and the factor times EPSILON; both
\* relations are reflexive and symmetric.
C16_ToleranceFormulae ==
    /\ DefaultsAsStated
    /\ AbsDiffEqAsStated
    /\ (last.op = "abs_diff_eq" /\ ValidSelf) =>
          abs_diff_eq(last.lhs, last.lhs, last.rhs.epsilon) = Val(TRUE)
    /\ (last.op = "relative_eq" /\ ValidSelf) =>
          /\ last.out =
                Val(\/ ExactAbsDiff(last.lhs, last.rhs.other)
                          <= Num(last.rhs.epsilon)
                    \/ ExactWithinRelative(last.lhs, last.rhs.other,
                                           last.rhs.max_relative))
          /\ relative_eq(last.rhs.other, last.lhs, last.rhs.epsilon,
                         last.rhs.max_relative) = last.out
          /\ relative_eq(last.lhs, last.lhs, last.rhs.epsilon,
                         last.rhs.max_relative) = Val(TRUE)

\* |a - b| and rel * max(|a|,|b|) as the backing decimal computes them: each
\* is rounded to the digits the decimal can keep for a number of its size.
ComputedAbsDiff == DecAbs(DecSub(last.lhs, last.rhs.other).d)
RelativeBound == DecMul(last.rhs.max_relative,
                        DecMax(DecAbs(last.lhs), DecAbs(last.rhs.other)))

\* C16 (amended): with |a-b| and rel * max(|a|,|b|) computed in the backing
\* decimal (rounded to its precision), abs_diff_eq is |a-b| <= eps;
\* relative_eq is true when |a-b| <= eps, and otherwise aborts if the
\* product overflows and else is true iff |a-b| <= the product; the defaults
\* are EPSILON and the factor times EPSILON; both relations are symmetric,
\* and reflexive for every non-negative epsilon.
C16_ToleranceFormulaeInDecimal ==
    /\ DefaultsAsStated
    /\ (last.op \in {"abs_diff_eq", "relative_eq"} /\ ValidSelf) =>
          DecSub(last.lhs, last.rhs.other).st = "Ok"
    /\ (last.op = "abs_diff_eq" /\ ValidSelf) =>
          /\ last.out = Val(Num(ComputedAbsDiff) <= Num(last.rhs.epsilon))
          /\ abs_diff_eq(last.rhs.other, last.lhs, last.rhs.epsilon) = last.out
          /\ Num(last.rhs.epsilon) >= 0 =>
                abs_diff_eq(last.lhs, last.lhs, last.rhs.epsilon) = Val(TRUE)
    /\ (last.op = "relative_eq" /\ ValidSelf) =>
          /\ IF Num(ComputedAbsDiff) <= Num(last.rhs.epsilon)
             THEN last.out = Val(TRUE)
             ELSE IF RelativeBound.st # "Ok"
             THEN last.out.kind = "Abort" /\ pc = "aborted"
             ELSE last.out = Val(Num(ComputedAbsDiff) <= Num(RelativeBound.d))
          /\ relative_eq(last.rhs.other, last.lhs, last.rhs.epsilon,
                         last.rhs.max_relative) = last.out
          /\ Num(last.rhs.epsilon) >= 0 =>
                relative_eq(last.lhs, last.lhs, last.rhs.epsilon,
                            last.rhs.max_relative) = Val(TRUE)

\* relative_eq was true of two different values only through the relative
\* bound.
C16_Witness ==
    /\ last.op = "relative_eq"
    /\ ValidSelf
    /\ Num(ComputedAbsDiff) > Num(last.rhs.epsilon)
    /\ Num(last.rhs.epsilon) >= 0
    /\ last.out = Val(TRUE)

\* ---- C17 ----------------------------------------------------------------
\* The value with its trailing zero fractional digits dropped: the same
\* number at the smallest scale that holds it.
RECURSIVE Shortest(_)
Shortest(d) ==
    IF d.e > 0 /\ d.m % 10 = 0 THEN Shortest(Dec(d.m \div 10, d.e - 1)) ELSE d

HasChar(s, c) == \E i \in 1..Len(s) : s[i] = c

\* C17: Display without a precision renders INFINITY as the f64::MAX
\* literal; any other value of scale zero as a plain integer without a
\* point; every other value as the backing value without trailing zero
\* fractional digits and without a dangling point, integer digits intact.
C17_DefaultDisplay ==
    (last.op = "fmt_Display" /\ ~last.rhs.given /\ ValidSelf) =>
        /\ last.out.kind = "Val"
        /\ IF DecEq(last.lhs, DecMAX) THEN last.out.val = F64MAXText
           ELSE IF last.lhs.e = 0
           THEN /\ last.out.val = NatStr(last.lhs.m)
                /\ ~HasChar(last.out.val, ".")
           ELSE /\ last.out.val = Decimal_to_string(Shortest(last.lhs))
                /\ last.out.val[Len(last.out.val)] # "."
                /\ HasChar(last.out.val, ".") =>
                      last.out.val[Len(last.out.val)] # "0"
                /\ SubSeq(last.out.val, 1, Len(NatStr(Trunc(last.lhs))))
                      = NatStr(Trunc(last.lhs))

\* A positive value whose fractional digits are all zero (1.0) was rendered
\* without the fraction and without the point, as "1".
C17_Witness ==
    /\ last.op = "fmt_Display"
    /\ ~last.rhs.given
    /\ last.lhs.e > 0
    /\ last.lhs.m > 0
    /\ last.lhs.m % Pow10(last.lhs.e) = 0
    /\ last.out = Val(NatStr(Trunc(last.lhs)))

\* ---- C18 ----------------------------------------------------------------
\* The number of characters after the point (none without a point).
RECURSIVE FracDigits(_)
FracDigits(s) ==
    IF s = <<>> THEN 0
    ELSE IF ~HasChar(s, ".") THEN 0
    ELSE IF s[Len(s)] = "." THEN 0
    ELSE 1 + FracDigits(SubSeq(s, 1, Len(s) - 1))

\* The number of fractional digits the last call asked for.
Requested ==
    IF last.op = "fmt_Display" THEN last.rhs.digits ELSE last.rhs

\* C18: Display with `{:.N}` and format_fixed_places(N) produce text with
\* exactly N fractional digits for every value other than INFINITY, whether
\* its scale is zero or not.
C18_FixedPrecisionDigits ==
    (/\ \/ last.op = "fmt_Display" /\ last.rhs.given
        \/ last.op = "format_fixed_places"
     /\ ValidSelf
     /\ ~DecEq(last.lhs, DecMAX)) =>
        /\ last.out.kind = "Val"
        /\ FracDigits(last.out.val) = Requested

\* ---- C19 ----------------------------------------------------------------
\* C19: encoding always succeeds; INFINITY encodes as the f64::MAX float
\* literal, any other value of scale zero as an integer literal, every
\* remaining value as a float literal; never a string or an object.
C19_EncodingForm ==
    (last.op = "serialize" /\ ValidSelf) =>
        /\ last.out.kind = "Val"
        /\ IF DecEq(last.lhs, DecMAX) THEN last.out.val = FloatLiteral(F64MAX)
           ELSE IF last.lhs.e = 0
           THEN last.out.val = IntegerLiteral(last.lhs.m)
           ELSE /\ last.out.val.form = "float"
                /\ last.out.val.v.cls = "fin"

\* ---- C20 ----------------------------------------------------------------
\* A float literal that is not negative and that a Decimal can hold.
RepresentableFloat(v) ==
    v.cls = "fin" /\ v.m >= 0 /\ from_f64(v).st = "Ok"

\* C20: a negative integer or float literal is rejected with a data error; a
\* string literal is rejected whatever it spells; f64::MAX and positive
\* infinity decode to INFINITY; every other non-negative integer or
\* representable float literal decodes to a Positive with that value; no
\* decoding yields a negative Positive.
C20_Decoding ==
    /\ last.op = "visit_str" => last.out.kind = "Err"
    /\ last.op = "visit_i64" =>
          IF last.rhs < 0 THEN last.out.kind = "Err"
          ELSE last.out = Ok(Dec(last.rhs, 0))
    /\ last.op = "visit_u64" => last.out = Ok(Dec(last.rhs, 0))
    /\ last.op = "visit_f64" =>
          /\ (last.rhs.cls = "ninf" \/ (last.rhs.cls = "fin" /\ last.rhs.m < 0))
                => last.out.kind = "Err"
          /\ (last.rhs = F64MAX \/ last.rhs.cls = "inf")
                => last.out = Ok(INFINITY)
          /\ RepresentableFloat(last.rhs) =>
                /\ last.out = Ok(from_f64(last.rhs).d)
                /\ (last.rhs.e <= MaxScale /\ last.rhs.m <= MaxMantissa) =>
                      Num(last.out.val) * Pow10(last.rhs.e)
                          = last.rhs.m * Pow10(MaxScale)
    /\ last.op \in {"visit_str", "visit_i64", "visit_u64", "visit_f64"} =>
          /\ last.out.kind \in {"Ok", "Err"}
          /\ last.out.kind = "Ok" => Num(last.out.val) >= 0

\* The f64::MAX literal was decoded to INFINITY.
C20_Witness ==
    /\ last.op = "visit_f64"
    /\ last.rhs = F64MAX
    /\ last.out = Ok(INFINITY)
    /\ pc = "returned"

\* ---- C21 ----------------------------------------------------------------
\* C21: decoding the encoded form of a valid Positive x (ZERO, integral,
\* fractional, INFINITY) yields a Positive equal to x.
C21_EncodeDecodeIdentity ==
    (last.op = "encode_decode" /\ ValidSelf) =>
        /\ last.out.kind = "Ok"
        /\ DecEq(last.out.val, last.lhs)

\* ---- C22 ----------------------------------------------------------------
\* The remainder of x divided by other, in units of the last place.
ExactRemainder == Num(last.lhs) % Num(last.rhs)

\* C22: is_multiple_of(x, other) never aborts; it is false when other is
\* ZERO; when other > 0 it is true exactly when the remainder of x divided
\* by other is below EPSILON, hence true for every exact multiple, x == ZERO
\* included.
C22_IsMultipleOf ==
    (last.op = "is_multiple_of" /\ ValidSelf) =>
        /\ last.out.kind = "Val"
        /\ IF Num(last.rhs) = 0 THEN last.out.val = FALSE
           ELSE /\ last.out.val = (ExactRemainder < Num(EPSILON))
                /\ ExactRemainder = 0 => last.out.val = TRUE
                /\ Num(last.lhs) = 0 => last.out.val = TRUE

\* A positive value was asked whether it is a multiple of ZERO: the answer
\* was false and nothing aborted.
C22_Witness ==
    /\ last.op = "is_multiple_of"
    /\ Num(last.lhs) > 0
    /\ Num(last.rhs) = 0
    /\ last.out = Val(FALSE)
    /\ pc = "returned"

\* ---- C23 ----------------------------------------------------------------
\* Adding the elements with Positive's `+`, starting from an outcome.
RECURSIVE PlusAll(_, _)
PlusAll(acc, iter) ==
    IF acc.kind # "Ok" \/ iter = <<>> THEN acc
    ELSE PlusAll(add(acc.val, Head(iter)), Tail(iter))

\* The same elements in every order.
Orders(iter) ==
    {[i \in 1..Len(iter) |-> iter[p[i]]] :
        p \in {q \in [1..Len(iter) -> 1..Len(iter)] :
                  \A i, j \in 1..Len(iter) : q[i] = q[j] => i = j}}

SumOf(iter) == IF last.op = "sum" THEN sum(iter) ELSE sum_ref(iter)

\* The exact total in units of the last place, and whether it can be
\* written with the largest scale among the elements.
RECURSIVE ExactTotal(_)
ExactTotal(iter) ==
    IF iter = <<>> THEN 0 ELSE Num(Head(iter)) + ExactTotal(Tail(iter))

TotalFits(iter) ==
    \E s \in 0..MaxScale :
        /\ \A i \in 1..Len(iter) : iter[i].e <= s
        /\ ExactTotal(iter) <= MaxMantissa * Pow10(MaxScale - s)

\* Sum gives what `+` from ZERO gives (aborting where `+` aborts), ZERO for
\* no elements, and never a fallback or a negative value.
SumIsPlusFromZero ==
    (last.op \in {"sum", "sum_ref"}) =>
        /\ last.out.kind = PlusAll(Ok(ZERO), last.rhs).kind
        /\ last.out.kind \in {"Ok", "Abort"}
        /\ last.out.kind = "Ok" =>
              /\ last.out = PlusAll(Ok(ZERO), last.rhs)
              /\ Num(last.out.val) >= 0
              /\ fold_add(CalcOk(DecZERO), last.rhs).d = last.out.val
        /\ last.rhs = <<>> => last.out = Ok(ZERO)

\* C23 (as stated): the sum of valid values is ZERO for no elements and
\* otherwise what `+` from ZERO gives, never the fallback, and the same for
\* every order of the elements.
C23_SumOrderIndependent ==
    /\ SumIsPlusFromZero
    /\ (last.op \in {"sum", "sum_ref"}) =>
          \A it \in Orders(last.rhs) : SumOf(it) = last.out

\* C23 (amended): the sum of valid values is ZERO for no elements and
\* otherwise what `+` from ZERO gives (aborting where `+` overflows), never
\* the fallback; when the exact total can be written with the largest scale
\* among the elements, it is that total for every order of the elements.
C23_SumOrderIndependentWhenExact ==
    /\ SumIsPlusFromZero
    /\ (last.op \in {"sum", "sum_ref"} /\ TotalFits(last.rhs)) =>
          \A it \in Orders(last.rhs) :
              /\ SumOf(it) = last.out
              /\ last.out.kind = "Ok"
              /\ Num(last.out.val) = ExactTotal(last.rhs)

\* Three values, one of them fractional, were summed to their exact total.
C23_Witness ==
    /\ last.op = "sum"
    /\ Len(last.rhs) = 3
    /\ \E i \in 1..3 : last.rhs[i].e > 0
    /\ \E i \in 1..3 : last.rhs[i] = DecONE
    /\ TotalFits(last.rhs)
    /\ last.out.kind = "Ok"
    /\ Num(last.out.val) = ExactTotal(last.rhs)
    /\ Num(last.out.val) > Num(DecONE)
    /\ pc = "returned"

\* ---- C24 ----------------------------------------------------------------
\* A text in the decimal grammar without a sign: digits with at most one
\* point, and at least one digit.
Unsigned(s) ==
    /\ \A i \in 1..Len(s) : IsDigit(s[i]) \/ s[i] = "."
    /\ \A i, j \in 1..Len(s) : (s[i] = "." /\ s[j] = ".") => i = j
    /\ \E i \in 1..Len(s) : IsDigit(s[i])

\* The digits of a text read as one natural number, the point skipped.
RECURSIVE WrittenDigits(_)
WrittenDigits(s) ==
    IF s = <<>> THEN 0
    ELSE IF s[Len(s)] = "." THEN WrittenDigits(SubSeq(s, 1, Len(s) - 1))
    ELSE 10 * WrittenDigits(SubSeq(s, 1, Len(s) - 1)) + DigitOf(s[Len(s)])

\* The value d is exactly the number the unsigned text s writes.
ExactlyWritten(d, s) ==
    Num(d) * Pow10(FracDigits(s)) = WrittenDigits(s) * Pow10(MaxScale)

StartsWithMinus(s) == s # <<>> /\ Head(s) = "-"

\* C24a: parsing a text that begins with a minus sign fails.
C24_FromStrLeadingMinusFails ==
    (last.op = "from_str" /\ StartsWithMinus(last.rhs)) =>
        last.out.kind = "Err"

\* C24b: parsing an unsigned text of the decimal grammar returns exactly
\* the number written.
C24_FromStrExactValue ==
    (last.op = "from_str" /\ Unsigned(last.rhs)) =>
        /\ last.out.kind = "Ok"
        /\ ExactlyWritten(last.out.val, last.rhs)

\* C24c: parsing a text that is neither in the grammar nor signed fails.
C24_FromStrNonNumericFails ==
    (last.op = "from_str" /\ ~Unsigned(last.rhs)
        /\ (last.rhs = <<>> \/ Head(last.rhs) \notin {"-", "+"})) =>
        last.out.kind = "Err"

\* C24: from_str fails for every text that begins with a minus sign and
\* for every non-numeric text, and for an unsigned text of the decimal
\* grammar returns a Positive of exactly the number written.
C24_FromStr ==
    /\ C24_FromStrLeadingMinusFails
    /\ C24_FromStrExactValue
    /\ C24_FromStrNonNumericFails

\* ---- C25 ----------------------------------------------------------------
MathHelpers ==
    {"sqrt", "sqrt_checked", "ln", "log10", "exp", "round", "round_to",
     "floor", "ceiling"}

\* The helper was called on a valid value of its domain (a logarithm needs
\* a value above zero).
InHelperDomain ==
    /\ last.op \in MathHelpers
    /\ ValidSelf
    /\ last.op \in {"ln", "log10"} => Num(last.lhs) > 0

\* C25: a math helper called on a valid Positive of its domain returns a
\* Positive whose backing value is >= 0, logarithms of values between zero
\* and one included.
C25_MathHelpersNonNegative ==
    (InHelperDomain /\ last.out.kind = "Ok") => Num(last.out.val) >= 0

\* The helpers other than the logarithms return a value >= 0, and the
\* logarithms do for arguments of at least one.
C25_HelpersOtherThanSmallLogs ==
    (InHelperDomain /\ last.out.kind = "Ok"
        /\ (last.op \in {"ln", "log10"} => Num(last.lhs) >= Num(DecONE)))
        => Num(last.out.val) >= 0

\* ---- C26 ----------------------------------------------------------------
\* With x = u units of the last place and K the number of digits of u less
\* one, k = floor(log10 x) is K - MaxScale and n = x / 10^k is u / 10^K; the
\* nice number m * 10^k is then m * 10^K units.
NiceFactor(u) ==
    LET K == Magnitude(u)
    IN  IF u * 10 < 15 * Pow10(K) THEN 1
        ELSE IF u < 3 * Pow10(K) THEN 2
        ELSE IF u < 7 * Pow10(K) THEN 5
        ELSE 10

NiceUnits(u) == NiceFactor(u) * Pow10(Magnitude(u))

NiceCall ==
    last.op = "round_to_nice_number" /\ ValidSelf /\ Num(last.lhs) > 0

\* C26: round_to_nice_number returns, for every valid x > 0 (values below
\* one included), m * 10^k with k = floor(log10 x) and m chosen from
\* {1, 2, 5, 10} by n = x / 10^k; it does not abort.
C26_RoundToNiceNumber ==
    NiceCall =>
        /\ last.out.kind = "Ok"
        /\ Num(last.out.val) = NiceUnits(Num(last.lhs))

\* Whenever round_to_nice_number returns, it returns that value.
C26_NiceNumberWhenReturned ==
    (NiceCall /\ last.out.kind = "Ok") =>
        Num(last.out.val) = NiceUnits(Num(last.lhs))

\* round_to_nice_number returns for values from one up whose nice number
\* is within range.
C26_NiceNumberReturnsFromOne ==
    (NiceCall /\ Num(last.lhs) >= Num(DecONE)
        /\ NiceUnits(Num(last.lhs)) <= Num(Dec(MaxMantissa, 0)))
        => last.out.kind = "Ok"

\* ---- C27 ----------------------------------------------------------------
\* C27: clamp returns min when x < min, else max when x > max, else x;
\* whenever min <= max the result lies between them and clamping it again
\* with the same bounds returns it.
C27_Clamp ==
    (last.op = "clamp" /\ ValidSelf) =>
        /\ last.out.kind = "Ok"
        /\ Num(last.lhs) < Num(last.rhs.min) => last.out.val = last.rhs.min
        /\ (Num(last.lhs) >= Num(last.rhs.min)
               /\ Num(last.lhs) > Num(last.rhs.max))
              => last.out.val = last.rhs.max
        /\ (Num(last.lhs) >= Num(last.rhs.min)
               /\ Num(last.lhs) <= Num(last.rhs.max))
              => last.out.val = last.lhs
        /\ Num(last.rhs.min) <= Num(last.rhs.max) =>
              /\ Num(last.rhs.min) <= Num(last.out.val)
              /\ Num(last.out.val) <= Num(last.rhs.max)
              /\ clamp(last.out.val, last.rhs.min, last.rhs.max) = last.out

\* A value above max was clamped down to max, with min below max.
C27_Witness ==
    /\ last.op = "clamp"
    /\ ValidSelf
    /\ Num(last.rhs.min) < Num(last.rhs.max)
    /\ Num(last.lhs) > Num(last.rhs.max)
    /\ last.out = Ok(last.rhs.max)
    /\ pc = "returned"

\* ---- C28 ----------------------------------------------------------------
\* What the by-reference form of the operator just applied gives for the
\* same operands.
ByReference ==
    IF last.op = "add_Decimal" THEN add_refDecimal(last.lhs, last.rhs)
    ELSE IF last.op = "sub_Decimal" THEN sub_refDecimal(last.lhs, last.rhs)
    ELSE div_refDecimal(last.lhs, last.rhs)

\* Two outcomes agree: both abort, or both return the same value.
SameOutcome(a, b) ==
    /\ a.kind = b.kind
    /\ a.kind # "Abort" => a.val = b.val

\* C28: `p + d`, `p - d` and `p / d` with an owned Decimal behave as the
\* same operator with a borrowed Decimal: both abort or both return the
\* same value, for every valid p and every d.
C28_OwnedAsByReference ==
    (last.op \in {"add_Decimal", "sub_Decimal", "div_Decimal"} /\ ValidSelf)
        => SameOutcome(last.out, ByReference)

\* The two forms of subtraction agree, and the two forms of addition and of
\* division agree whenever the owned form gives a value >= 0 or aborts.
C28_AgreeUnlessNegative ==
    (last.op \in {"add_Decimal", "sub_Decimal", "div_Decimal"} /\ ValidSelf
        /\ (last.out.kind = "Ok" => Num(last.out.val) >= 0))
        => SameOutcome(last.out, ByReference)

\* ---- C29 ----------------------------------------------------------------
\* C29: `p == d` holds exactly when `d == p` holds, for every valid
\* Positive p and every Decimal d.
C29_EqDecimalSymmetric ==
    (last.op \in {"eq_Decimal", "Decimal_eq_Positive"} /\ ValidSelf) =>
        eq_Decimal(last.lhs, last.rhs) = Decimal_eq_Positive(last.rhs, last.lhs)

\* ---- C30 ----------------------------------------------------------------
\* C30: for every valid Positive other than INFINITY, parsing the text that
\* Display without a precision produces succeeds and yields an equal value.
C30_DisplayThenParse ==
    (last.op = "to_string_parse" /\ ValidSelf /\ ~DecEq(last.lhs, INFINITY))
        => /\ last.out.kind = "Ok"
           /\ eq(last.out.val, last.lhs).val

\* A fractional value with a trailing zero digit was rendered without it
\* and parsed back to an equal value at a smaller scale.
C30_Witness ==
    /\ last.op = "to_string_parse"
    /\ last.lhs.m > 0
    /\ last.lhs.e > 0
    /\ last.lhs.m % 10 = 0
    /\ last.out.kind = "Ok"
    /\ last.out.val.e < last.lhs.e
    /\ Num(last.out.val) = Num(last.lhs)
    /\ pc = "returned"

====
